---- MODULE Spec2Model ----
(***************************************************************************)
(* A model of graff (umi-labs/graff): the chart configuration validator,   *)
(* the batch driver, the transform steps of the dispatcher and the          *)
(* stacked-bar, retention and funnel layout algorithms.                     *)
(*                                                                         *)
(* Conventions.  Option<T> is a sequence of length 0 (None) or 1 (Some).   *)
(* An f64 is a record [nan, v]; v counts hundredths.  A DataFrame is a     *)
(* sequence of rows, a row a record of cells.  A HashMap is a function on  *)
(* its key set.                                                             *)
(***************************************************************************)
EXTENDS Integers, Sequences, FiniteSets, TLC

VARIABLES
    pc,                 \* position of the run
    config,             \* the ChartConfig in use
    df,                 \* the DataFrame in use
    result,             \* what the operation returned
    charts,             \* ChartSpec.charts of a batch run
    index,              \* loop index of render_batch_charts
    successful_charts,  \* counter of render_batch_charts
    failed_charts,      \* counter of render_batch_charts
    attempted,          \* the charts handed to process_single_chart
    written,            \* the output files written
    log                 \* the steps process_single_chart has executed, in order

vars == <<pc, config, df, result, charts, index, successful_charts,
          failed_charts, attempted, written, log>>

driverVars == <<charts, index, successful_charts, failed_charts, attempted, written>>

batchVars == <<driverVars, log>>

-----------------------------------------------------------------------------
(* Option<T> *)

None == <<>>

Some(v) == <<v>>

IsSome(o) == o # <<>>

IsNone(o) == o = <<>>

Unwrap(o) == o[1]

Opt(S) == {None} \cup {Some(v) : v \in S}

-----------------------------------------------------------------------------
(* f64: the values the validator can tell apart, NaN included.  Every     *)
(* comparison with NaN is false.                                           *)

F(v) == [nan |-> FALSE, v |-> v]

NaN == [nan |-> TRUE, v |-> 0]

FLe(a, b) == ~a.nan /\ ~b.nan /\ a.v <= b.v

FGt(a, b) == ~a.nan /\ ~b.nan /\ a.v > b.v

-----------------------------------------------------------------------------
(* String helpers: a free-text expression is a sequence of characters.     *)

RECURSIVE TrimStart(_)
TrimStart(s) ==
    IF s = <<>> THEN s
    ELSE IF Head(s) = " " THEN TrimStart(Tail(s)) ELSE s

RECURSIVE TrimEnd(_)
TrimEnd(s) ==
    IF s = <<>> THEN s
    ELSE IF s[Len(s)] = " " THEN TrimEnd(SubSeq(s, 1, Len(s) - 1)) ELSE s

Trim(s) == TrimEnd(TrimStart(s))

-----------------------------------------------------------------------------
(* spec.rs: the configuration types *)

ChartType ==
    {"Line", "Area", "Bar", "BarStacked", "Heatmap", "Scatter", "Funnel", "Retention"}

Single(v) == [kind |-> "Single", values |-> <<v>>]

Multiple(vs) == [kind |-> "Multiple", values |-> vs]

FilterConfig(inc, exc, expr) == [include |-> inc, exclude |-> exc, expression |-> expr]

SortConfig(col, asc) == [column |-> col, ascending |-> asc]

\* ChartConfig with every optional field absent (the Default::default() of the tests)
DefaultConfig ==
    [chart_type |-> "Line", title |-> None, data |-> None,
     x |-> None, y |-> None, z |-> None, group_by |-> None, agg |-> None,
     filter |-> None, derive |-> None, sort |-> None, limit |-> None,
     width |-> None, height |-> None, scale |-> None, bins |-> None,
     steps |-> None, step_order |-> None, values |-> None,
     cohort_date |-> None, period_number |-> None, users |-> None]

MinDim == 100
MaxDim == 10000
MinBins == 2
MaxBins == 100
\* 10.0 in hundredths
MaxScale == 1000

-----------------------------------------------------------------------------
(* ChartConfig::validate *)

Ok == "Ok"

ErrZ == "Heatmap charts require a 'z' field"
ErrSteps == "Funnel charts require a 'steps' field"
ErrValues == "Funnel charts require a 'values' field"
ErrCohort == "Retention charts require a 'cohort_date' field"
ErrPeriod == "Retention charts require a 'period_number' field"
ErrUsers == "Retention charts require a 'users' field"
ErrX == "charts require an 'x' field"
ErrY == "charts require a 'y' field"
ErrWidth == "Chart width must be between 100 and 10000 pixels"
ErrHeight == "Chart height must be between 100 and 10000 pixels"
ErrScale == "Chart scale must be between 0.1 and 10.0"
ErrBins == "Heatmap bins must be between 2 and 100"
ErrNoCondition == "Filter configuration must have at least one condition"
ErrColumnEmpty == "Filter column name cannot be empty"
ErrValueEmpty == "Filter value cannot be empty for column"
ErrListEmpty == "Filter values list cannot be empty for column"
ErrExpressionEmpty == "Filter expression cannot be empty"

\* required_fields without the checks of z, users and y
required_fields_mut(c) ==
    CASE c.chart_type = "Heatmap" -> Ok
      [] c.chart_type = "Funnel" ->
            IF IsNone(c.steps) THEN ErrSteps
            ELSE IF IsNone(c.values) THEN ErrValues ELSE Ok
      [] c.chart_type = "Retention" ->
            IF IsNone(c.cohort_date) THEN ErrCohort
            ELSE IF IsNone(c.period_number) THEN ErrPeriod
            ELSE Ok
      [] OTHER ->
            IF IsNone(c.x) THEN ErrX ELSE Ok

\* the match on chart_type: the first missing required field, or Ok
required_fields(c) ==
    CASE c.chart_type = "Heatmap" ->
            IF IsNone(c.z) THEN ErrZ ELSE Ok
      [] c.chart_type = "Funnel" ->
            IF IsNone(c.steps) THEN ErrSteps
            ELSE IF IsNone(c.values) THEN ErrValues ELSE Ok
      [] c.chart_type = "Retention" ->
            IF IsNone(c.cohort_date) THEN ErrCohort
            ELSE IF IsNone(c.period_number) THEN ErrPeriod
            ELSE IF IsNone(c.users) THEN ErrUsers ELSE Ok
      [] OTHER ->
            IF IsNone(c.x) THEN ErrX
            ELSE IF IsNone(c.y) THEN ErrY ELSE Ok

\* !(100..=10000).contains(&d)
dimension_out_of_range(d) == ~(MinDim <= d /\ d <= MaxDim)

\* scale <= 0.0 || scale > 10.0
scale_out_of_range(s) == FLe(s, F(0)) \/ FGt(s, F(MaxScale))

\* !(2..=100).contains(&bins)
bins_out_of_range(b) == ~(MinBins <= b /\ b <= MaxBins)

\* the four numeric checks, in the order of the code
numeric_bounds(c) ==
    IF IsSome(c.width) /\ dimension_out_of_range(Unwrap(c.width)) THEN ErrWidth
    ELSE IF IsSome(c.height) /\ dimension_out_of_range(Unwrap(c.height)) THEN ErrHeight
    ELSE IF IsSome(c.scale) /\ scale_out_of_range(Unwrap(c.scale)) THEN ErrScale
    ELSE IF IsSome(c.bins) /\ bins_out_of_range(Unwrap(c.bins)) THEN ErrBins
    ELSE Ok

\* the errors one (column, values) entry of an include or exclude map can raise
entry_errors(column, fv) ==
    IF column = "" THEN {ErrColumnEmpty}
    ELSE IF fv.kind = "Single"
        THEN (IF fv.values[1] = "" THEN {ErrValueEmpty} ELSE {})
    ELSE IF fv.values = <<>> THEN {ErrListEmpty}
    ELSE IF \E i \in 1..Len(fv.values) : fv.values[i] = "" THEN {ErrValueEmpty}
    ELSE {}

\* the loop over a HashMap stops at the first bad entry of an iteration order
\* that is not fixed: any bad entry's error can be the one returned
map_errors(m) ==
    IF IsNone(m) THEN {}
    ELSE UNION {entry_errors(k, Unwrap(m)[k]) : k \in DOMAIN Unwrap(m)}

\* a validator that takes an expression for blank only when it is empty
validate_filter_mut(filter) ==
    LET has_include == IsSome(filter.include) /\ DOMAIN Unwrap(filter.include) # {}
        has_exclude == IsSome(filter.exclude) /\ DOMAIN Unwrap(filter.exclude) # {}
        has_expression == IsSome(filter.expression)
    IN  IF ~has_include /\ ~has_exclude /\ ~has_expression THEN {ErrNoCondition}
        ELSE IF map_errors(filter.include) # {} THEN map_errors(filter.include)
        ELSE IF map_errors(filter.exclude) # {} THEN map_errors(filter.exclude)
        ELSE IF IsSome(filter.expression) /\ Unwrap(filter.expression) = <<>>
            THEN {ErrExpressionEmpty}
        ELSE {Ok}

\* ChartConfig::validate_filter: the set of results it can return
validate_filter(filter) ==
    LET has_include == IsSome(filter.include) /\ DOMAIN Unwrap(filter.include) # {}
        has_exclude == IsSome(filter.exclude) /\ DOMAIN Unwrap(filter.exclude) # {}
        has_expression == IsSome(filter.expression)
    IN  IF ~has_include /\ ~has_exclude /\ ~has_expression THEN {ErrNoCondition}
        ELSE IF map_errors(filter.include) # {} THEN map_errors(filter.include)
        ELSE IF map_errors(filter.exclude) # {} THEN map_errors(filter.exclude)
        ELSE IF IsSome(filter.expression) /\ Trim(Unwrap(filter.expression)) = <<>>
            THEN {ErrExpressionEmpty}
        ELSE {Ok}

\* ChartConfig::validate: the set of results it can return (one, but for the
\* iteration order of the filter maps)
validate(c) ==
    IF required_fields(c) # Ok THEN {required_fields(c)}
    ELSE IF numeric_bounds(c) # Ok THEN {numeric_bounds(c)}
    ELSE IF IsSome(c.filter) THEN validate_filter(Unwrap(c.filter))
    ELSE {Ok}

-----------------------------------------------------------------------------
(* The configurations the validator is run on.                             *)

FieldNames ==
    {"x", "y", "z", "steps", "values", "cohort_date", "period_number", "users"}

\* the config of type t that binds exactly the fields of P
Bound(t, P) ==
    LET col(f, v) == IF f \in P THEN Some(v) ELSE None
    IN  [DefaultConfig EXCEPT
            !.chart_type = t,
            !.x = col("x", "date"),
            !.y = col("y", "users"),
            !.z = col("z", "value"),
            !.steps = col("steps", <<"visit", "signup">>),
            !.values = col("values", "count"),
            !.cohort_date = col("cohort_date", "cohort_date"),
            !.period_number = col("period_number", "period"),
            !.users = col("users", "users")]

EmptyFilter == FilterConfig(None, None, None)

GoodFilter ==
    FilterConfig(Some([c \in {"channel"} |-> Single("organic")]), None, None)

\* numeric fields <<width, height, scale, bins>> that are absent or invalid
InvalidNumerics ==
    {<<None, None, None, None>>,
     <<Some(MinDim - 1), None, None, None>>,
     <<None, Some(MaxDim + 1), None, None>>,
     <<None, None, Some(F(0)), None>>,
     <<None, None, Some(NaN), None>>,
     <<None, None, None, Some(MinBins - 1)>>,
     <<Some(MaxDim + 1), Some(MinDim - 1), Some(F(MaxScale + 1)), Some(MaxBins + 1)>>}

\* every type with every combination of bound fields, with numeric fields and a
\* filter that are absent or invalid
PresenceConfigs ==
    {[Bound(t, P) EXCEPT !.width = n[1], !.height = n[2], !.scale = n[3],
                         !.bins = n[4], !.filter = f] :
        t \in ChartType, P \in SUBSET FieldNames, n \in InvalidNumerics,
        f \in {None, Some(EmptyFilter)}}

DimValues == Opt({MinDim - 1, MinDim, MaxDim, MaxDim + 1})

ScaleValues == Opt({F(0 - 100), F(0), F(5), F(MaxScale), F(MaxScale + 1), NaN})

BinsValues == Opt({MinBins - 1, MinBins, MaxBins, MaxBins + 1})

\* every type with all its fields bound, no filter, and numeric fields on and
\* around their limits
BoundsConfigs ==
    {[Bound(t, FieldNames) EXCEPT !.width = w, !.height = h, !.scale = s,
                                  !.bins = b] :
        t \in ChartType, w \in DimValues, h \in DimValues,
        s \in ScaleValues, b \in BinsValues}

\* the values of a filter entry: single and multiple, with empty strings and an
\* empty list among them
FilterValues ==
    {Single(""), Single("a"), Multiple(<<>>), Multiple(<<"a">>), Multiple(<<"a", "">>)}

\* include and exclude maps: absent, empty, and with the columns "" and "channel"
FilterMapsToValidate ==
    Opt(UNION {[D -> FilterValues] : D \in SUBSET {"", "channel"}})

FilterExpressions == Opt({<<>>, <<" ">>, <<" ", " ">>, <<"u", ">", "1">>, <<" ", "u">>})

\* a line chart with its fields bound and every such filter
FilterConfigs ==
    {[Bound("Line", {"x", "y"}) EXCEPT !.filter = Some(FilterConfig(inc, exc, expr))] :
        inc \in FilterMapsToValidate, exc \in FilterMapsToValidate,
        expr \in FilterExpressions}

NoResult == "NoResult"

NoFrame == <<>>

BatchIdle ==
    /\ charts = <<>>
    /\ index = 0
    /\ successful_charts = 0
    /\ failed_charts = 0
    /\ attempted = <<>>
    /\ written = {}
    /\ log = <<>>

InitValidate ==
    /\ pc = "start"
    /\ config = DefaultConfig
    /\ df = NoFrame
    /\ result = NoResult
    /\ BatchIdle

\* a ChartConfig is parsed from a specification document or built from CLI flags
LoadConfig ==
    /\ pc = "start"
    /\ \E c \in PresenceConfigs \cup BoundsConfigs \cup FilterConfigs : config' = c
    /\ pc' = "loaded"
    /\ UNCHANGED <<df, result, batchVars>>

\* chart_config.validate()
Validate ==
    /\ pc = "loaded"
    /\ \E r \in validate(config) : result' = r
    /\ pc' = "validated"
    /\ UNCHANGED <<config, df, batchVars>>

NextValidate == LoadConfig \/ Validate

SpecValidate == InitValidate /\ [][NextValidate]_vars

-----------------------------------------------------------------------------
(* Claims on the validator *)

RequiredFieldErrors == {ErrZ, ErrSteps, ErrValues, ErrCohort, ErrPeriod, ErrUsers, ErrX, ErrY}

NumericErrors == {ErrWidth, ErrHeight, ErrScale, ErrBins}

FilterErrors ==
    {ErrNoCondition, ErrColumnEmpty, ErrValueEmpty, ErrListEmpty, ErrExpressionEmpty}

\* the fields section 4.1 rule 1 requires of a chart type
RequiredOf(t) ==
    CASE t = "Heatmap" -> {"z"}
      [] t = "Funnel" -> {"steps", "values"}
      [] t = "Retention" -> {"cohort_date", "period_number", "users"}
      [] OTHER -> {"x", "y"}

FieldOf(c, f) ==
    CASE f = "x" -> c.x [] f = "y" -> c.y [] f = "z" -> c.z
      [] f = "steps" -> c.steps [] f = "values" -> c.values
      [] f = "cohort_date" -> c.cohort_date
      [] f = "period_number" -> c.period_number
      [] f = "users" -> c.users

MissingRequired(c) == {f \in RequiredOf(c.chart_type) : IsNone(FieldOf(c, f))}

\* C1: validate rejects a config that lacks a required field of its type, with a
\* required-field error, and reports a required-field error for no config that
\* has the required fields of its type.
C1_RequiredFields ==
    pc = "validated" =>
        /\ MissingRequired(config) # {} => result \in RequiredFieldErrors
        /\ MissingRequired(config) = {} => result \notin RequiredFieldErrors

\* a retention chart that lacks only its users column has been rejected
C1_Witness ==
    /\ pc = "validated"
    /\ config.chart_type = "Retention"
    /\ MissingRequired(config) = {"users"}
    /\ result = ErrUsers

\* section 4.1 rule 2, as the ranges it states
WidthInRange(c) == IsSome(c.width) => MinDim <= Unwrap(c.width) /\ Unwrap(c.width) <= MaxDim

HeightInRange(c) ==
    IsSome(c.height) => MinDim <= Unwrap(c.height) /\ Unwrap(c.height) <= MaxDim

\* scale in (0, 10.0]: NaN is in no interval
ScaleInRange(c) ==
    IsSome(c.scale) =>
        /\ ~Unwrap(c.scale).nan
        /\ 0 < Unwrap(c.scale).v
        /\ Unwrap(c.scale).v <= MaxScale

BinsInRange(c) == IsSome(c.bins) => MinBins <= Unwrap(c.bins) /\ Unwrap(c.bins) <= MaxBins

NumericInRange(c) ==
    WidthInRange(c) /\ HeightInRange(c) /\ ScaleInRange(c) /\ BinsInRange(c)

\* section 4.1 rule 3, as the conditions it states
EntryValid(column, fv) ==
    /\ column # ""
    /\ fv.values # <<>>
    /\ \A i \in 1..Len(fv.values) : fv.values[i] # ""

MapValid(m) == IsSome(m) => \A k \in DOMAIN Unwrap(m) : EntryValid(k, Unwrap(m)[k])

NonEmptyMap(m) == IsSome(m) /\ DOMAIN Unwrap(m) # {}

FilterValid(f) ==
    /\ NonEmptyMap(f.include) \/ NonEmptyMap(f.exclude) \/ IsSome(f.expression)
    /\ MapValid(f.include)
    /\ MapValid(f.exclude)
    /\ IsSome(f.expression) => \E i \in 1..Len(Unwrap(f.expression)) :
                                    Unwrap(f.expression)[i] # " "

FilterOk(c) == IsSome(c.filter) => FilterValid(Unwrap(c.filter))

\* C2: the error reported is that of the earliest violated rule: a required-field
\* error when a required field is missing, else a numeric error when a numeric
\* field is out of range, else a filter error when the filter is invalid.
C2_FirstFailureWins ==
    pc = "validated" =>
        /\ MissingRequired(config) # {} => result \in RequiredFieldErrors
        /\ (MissingRequired(config) = {} /\ ~NumericInRange(config))
                => result \in NumericErrors
        /\ (MissingRequired(config) = {} /\ NumericInRange(config) /\ ~FilterOk(config))
                => result \in FilterErrors

\* C3: a config with its required fields and no filter is accepted exactly when
\* every numeric field that is present is in its range.
C3_NumericBounds ==
    (pc = "validated" /\ MissingRequired(config) = {} /\ IsNone(config.filter)) =>
        (result = Ok <=> NumericInRange(config))

-----------------------------------------------------------------------------
(* cli.rs: the batch driver, render_batch_charts, and process_single_chart *)

MaxCharts == 3

\* ChartSpec::validate: Ok, or the error of the first chart that fails
spec_validate(cs) ==
    IF cs = <<>> THEN "Chart specification must contain at least one chart"
    ELSE IF \E i \in 1..Len(cs) : Ok \notin validate(cs[i])
        THEN "Chart validation failed"
    ELSE Ok

\* apply_chart_transformations unwraps x and y when an aggregation is set;
\* the argument of unwrap_or is evaluated whether or not group_by is set
transformations_panic(c) == IsSome(c.agg) /\ (IsNone(c.x) \/ IsNone(c.y))

\* process_single_chart: the ways it can end for a config, the data file, its
\* columns and the drawing backend being the environment's choice
process_single_chart(c) ==
    IF Ok \notin validate(c) THEN {"validation_error"}
    ELSE {"load_error", "column_error"}
            \cup (IF transformations_panic(c) THEN {"panic"}
                  ELSE {"render_error", "Ok"})

\* a string is a sequence of characters; to_lowercase().replace(' ', "-")
slug_char(ch) ==
    CASE ch = "A" -> "a"
      [] ch = "B" -> "b"
      [] ch = " " -> "-"
      [] OTHER -> ch

slug(name) == [i \in 1..Len(name) |-> slug_char(name[i])]

\* format!("{}", n) for the chart numbers of a batch
digits(n) ==
    CASE n = 1 -> <<"1">> [] n = 2 -> <<"2">> [] n = 3 -> <<"3">>
      [] n = 4 -> <<"4">> [] OTHER -> <<"5">>

\* chart_config.title.as_deref().unwrap_or(&default_name)
chart_name(c, i) == IF IsSome(c.title) THEN Unwrap(c.title) ELSE <<"chart_">> \o digits(i)

\* the output file name "<name>-<type>.<ext>" (every chart here is a png)
output_path(c, i) == slug(chart_name(c, i)) \o <<"-", c.chart_type, ".", "png">>

\* the charts of the batch specs: a valid chart with its own data file, one of
\* the same type with another title and another file, a valid one that relies
\* on data.default, one that fails validation, and a valid heatmap with an
\* aggregation and no x
BatchCharts ==
    {[Bound("Line", {"x", "y"}) EXCEPT !.data = Some("data.csv"), !.title = Some(<<"A", " ", "b">>)],
     [Bound("Line", {"x", "y"}) EXCEPT !.data = Some("other.csv"), !.title = Some(<<"a", "-", "b">>)],
     Bound("Bar", {"x", "y"}),
     [Bound("Scatter", {"x"}) EXCEPT !.data = Some("data.csv")],
     [Bound("Heatmap", {"z"}) EXCEPT !.data = Some("data.csv"), !.agg = Some("Sum")]}

RECURSIVE SeqsUpTo(_, _)
SeqsUpTo(S, n) ==
    IF n = 0 THEN {<<>>}
    ELSE LET shorter == SeqsUpTo(S, n - 1)
         IN  shorter \cup {Append(q, e) : q \in shorter, e \in S}

InitBatch ==
    /\ pc = "start"
    /\ config = DefaultConfig
    /\ df = NoFrame
    /\ result = NoResult
    /\ BatchIdle

\* the spec file is read and parsed: ChartSpec::from_yaml / from_json, which
\* validate every chart before any is processed.  result holds data.default.
LoadSpec ==
    /\ pc = "start"
    /\ \E cs \in SeqsUpTo(BatchCharts, MaxCharts), default \in {None, Some("default.csv")} :
        /\ charts' = cs
        /\ result' = default
        /\ pc' = IF spec_validate(cs) = Ok THEN "loop" ELSE "spec_rejected"
    /\ index' = 0
    /\ UNCHANGED <<config, df, successful_charts, failed_charts, attempted, written, log>>

\* one iteration of the loop over spec.charts
ProcessChart ==
    /\ pc = "loop"
    /\ index < Len(charts)
    /\ LET chart_config == charts[index + 1]
           data_path == IF IsSome(chart_config.data) THEN chart_config.data ELSE result
       IN  IF IsNone(data_path)
           THEN \* .ok_or_else(...)? returns from render_batch_charts
                /\ pc' = "aborted"
                /\ UNCHANGED <<index, successful_charts, failed_charts, attempted, written>>
           ELSE \E outcome \in process_single_chart(chart_config) :
                /\ attempted' = Append(attempted, index + 1)
                /\ CASE outcome = "Ok" ->
                            /\ successful_charts' = successful_charts + 1
                            /\ written' = written \cup {output_path(chart_config, index + 1)}
                            /\ UNCHANGED failed_charts
                            /\ pc' = "loop"
                     [] outcome = "panic" ->
                            /\ UNCHANGED <<successful_charts, failed_charts, written>>
                            /\ pc' = "panicked"
                     [] OTHER ->
                            /\ failed_charts' = failed_charts + 1
                            /\ UNCHANGED <<successful_charts, written>>
                            /\ pc' = "loop"
                /\ index' = index + 1
    /\ UNCHANGED <<config, df, result, charts, log>>

\* after the loop: the summary, and exit(1) if a chart failed
Summary ==
    /\ pc = "loop"
    /\ index = Len(charts)
    /\ pc' = IF failed_charts > 0 THEN "exit_failure" ELSE "exit_success"
    /\ UNCHANGED <<config, df, result, batchVars>>

NextBatch == LoadSpec \/ ProcessChart \/ Summary

SpecBatch == InitBatch /\ [][NextBatch]_vars

BatchEnded == pc \in {"spec_rejected", "aborted", "panicked", "exit_failure", "exit_success"}

\* C4: when a batch run ends, every chart of the spec has been attempted, in
\* specification order, whatever happened to the charts before it.
C4_EveryChartAttempted ==
    BatchEnded => attempted = [i \in 1..Len(charts) |-> i]

-----------------------------------------------------------------------------
(* Data frames.  A frame is [columns: the schema, rows: a sequence of       *)
(* records]; a lazy frame adds a status (a missing column is found when the *)
(* frame is collected) and the log of the steps applied to it.              *)

MaxRows == 2

Channels == {"A", "B", "C"}

Devices == {"A", "B"}

UserCounts == {1, 2}

Schema == <<"channel", "device", "users">>

\* AnyValue: the cell of a value column holds a number of some type, a string or
\* a null; v is the number, and 0 in a cell that holds none
Int64(n) == [type |-> "Int64", v |-> n]

UInt32(n) == [type |-> "UInt32", v |-> n]

Utf8 == [type |-> "Utf8", v |-> 0]

NullCell == [type |-> "Null", v |-> 0]

Rows == [channel : Channels, device : Devices, users : {Int64(n) : n \in UserCounts}]

Frames == {[columns |-> Schema, rows |-> rs] : rs \in SeqsUpTo(Rows, MaxRows)}

Lazy(frame) == [status |-> "Ok", columns |-> frame.columns, rows |-> frame.rows, steps |-> <<>>]

Failed(lf, status) == [status |-> status, columns |-> <<>>, rows |-> <<>>, steps |-> lf.steps]

HasColumn(columns, c) == \E i \in 1..Len(columns) : columns[i] = c

Logged(lf, step) == IF lf.status = "Ok" THEN [lf EXCEPT !.steps = Append(@, step)] ELSE lf

\* the order of the strings of a column
ord(v) == CASE v = "A" -> 1 [] v = "B" -> 2 [] v = "C" -> 3 [] OTHER -> 4

\* the sort key of a cell: users is the integer column, the others hold strings
key(row, column) == IF column = "users" THEN row[column].v ELSE ord(row[column])

Injections(n, S) == {p \in [1..n -> S] : \A i, j \in 1..n : p[i] = p[j] => i = j}

-----------------------------------------------------------------------------
(* cli.rs: apply_filter_config (and transform.rs: apply_filters) *)

\* let mut expr = col.eq(values[0]); for value in values.skip(1) { expr = expr.or(col.eq(value)) }
RECURSIVE eq_chain(_, _, _, _)
eq_chain(cell, values, i, expr) ==
    IF i > Len(values) THEN expr
    ELSE eq_chain(cell, values, i + 1, expr \/ cell = values[i])

include_expr(cell, fv) ==
    IF fv.kind = "Single" THEN cell = fv.values[1]
    ELSE eq_chain(cell, fv.values, 2, cell = fv.values[1])

\* let mut expr = col.neq(values[0]); for value in values.skip(1) { expr = expr.and(col.neq(value)) }
RECURSIVE neq_chain(_, _, _, _)
neq_chain(cell, values, i, expr) ==
    IF i > Len(values) THEN expr
    ELSE neq_chain(cell, values, i + 1, expr /\ cell # values[i])

\* the exclude expression with the chain built with or() as the include chain is
exclude_expr_mut(cell, fv) ==
    IF fv.kind = "Single" THEN cell # fv.values[1]
    ELSE \E i \in 1..Len(fv.values) : cell # fv.values[i]

exclude_expr(cell, fv) ==
    IF fv.kind = "Single" THEN cell # fv.values[1]
    ELSE neq_chain(cell, fv.values, 2, cell # fv.values[1])

\* for (column, values) in map { lf = lf.filter(filter_expr) }: one filter per
\* entry, in the map's iteration order (the result does not depend on it)
RECURSIVE filter_entries(_, _, _, _)
filter_entries(rows, m, columns, including) ==
    IF columns = {} THEN rows
    ELSE LET column == CHOOSE k \in columns : TRUE
             filter_expr(r) ==
                IF including THEN include_expr(r[column], m[column])
                ELSE exclude_expr(r[column], m[column])
         IN  filter_entries(SelectSeq(rows, filter_expr), m, columns \ {column}, including)

entries(m) == IF IsSome(m) THEN Unwrap(m) ELSE <<>>

apply_filter_config(lf, filter) ==
    LET includes == entries(filter.include)
        excludes == entries(filter.exclude)
    IN  IF lf.status # "Ok" THEN lf
        ELSE IF \E k \in DOMAIN includes \cup DOMAIN excludes : ~HasColumn(lf.columns, k)
            THEN Failed(lf, "ColumnNotFound")
        ELSE Logged([lf EXCEPT !.rows =
                        filter_entries(filter_entries(@, includes, DOMAIN includes, TRUE),
                                       excludes, DOMAIN excludes, FALSE)],
                    "filter")

\* transform.rs: the same two loops; the expression is printed and not applied
apply_filters(lf, filter) == apply_filter_config(lf, filter)

-----------------------------------------------------------------------------
(* cli.rs: apply_aggregation, the sort loop and the limit *)

RECURSIVE sum(_)
sum(s) == IF s = <<>> THEN 0 ELSE Head(s) + sum(Tail(s))

RECURSIVE min(_)
min(s) == IF Len(s) = 1 THEN s[1] ELSE IF Head(s) <= min(Tail(s)) THEN Head(s) ELSE min(Tail(s))

RECURSIVE max(_)
max(s) == IF Len(s) = 1 THEN s[1] ELSE IF Head(s) >= max(Tail(s)) THEN Head(s) ELSE max(Tail(s))

\* the aggregations over integers that yield an integer
agg_expr(values, agg) ==
    CASE agg = "Sum" -> sum(values)
      [] agg = "Count" -> Len(values)
      [] agg = "Min" -> min(values)
      [] OTHER -> max(values)

\* the numbers of a value column
column_of(rows, column) == [i \in 1..Len(rows) |-> rows[i][column].v]

\* lf.group_by([col(group_by)]).agg([agg_expr.alias(value_col)]): one row per
\* group, holding the group and the aggregate, in an order that is not fixed
apply_aggregation(lf, group_by, value_col, agg) ==
    IF lf.status # "Ok" THEN {lf}
    ELSE IF ~HasColumn(lf.columns, group_by) \/ ~HasColumn(lf.columns, value_col)
        THEN {Failed(lf, "ColumnNotFound")}
    ELSE LET groups == {lf.rows[i][group_by] : i \in 1..Len(lf.rows)}
             in_group(g) == LET same(r) == r[group_by] = g IN SelectSeq(lf.rows, same)
             out(g) == [c \in {group_by, value_col} |->
                            IF c = group_by THEN g
                            ELSE IF agg = "Count"
                                THEN UInt32(agg_expr(column_of(in_group(g), value_col), agg))
                            ELSE Int64(agg_expr(column_of(in_group(g), value_col), agg))]
         IN  {Logged([lf EXCEPT !.columns = <<group_by, value_col>>,
                                !.rows = [i \in 1..Cardinality(groups) |-> out(p[i])]],
                     "group")
                : p \in Injections(Cardinality(groups), groups)}

is_sorted(rows, column, descending) ==
    \A i \in 1..(Len(rows) - 1) :
        IF descending THEN key(rows[i], column) >= key(rows[i + 1], column)
        ELSE key(rows[i], column) <= key(rows[i + 1], column)

\* lf.sort(column, SortOptions { descending, ..Default::default() }): maintain_order
\* is false, so rows with equal keys come out in any order
sort(lf, column, descending) ==
    IF lf.status # "Ok" THEN {lf}
    ELSE IF ~HasColumn(lf.columns, column) THEN {Failed(lf, "ColumnNotFound")}
    ELSE {[lf EXCEPT !.rows = [i \in 1..Len(lf.rows) |-> lf.rows[p[i]]]]
            : p \in {q \in Injections(Len(lf.rows), 1..Len(lf.rows)) :
                        is_sorted([i \in 1..Len(lf.rows) |-> lf.rows[q[i]]],
                                  column, descending)}}

\* for sort_config in sort { lf = lf.sort(..) }: one sort after the other
RECURSIVE apply_sorting(_, _, _)
apply_sorting(lfs, sort_configs, i) ==
    IF i > Len(sort_configs) THEN lfs
    ELSE LET ascending ==
                IF IsSome(sort_configs[i].ascending) THEN Unwrap(sort_configs[i].ascending)
                ELSE TRUE
         IN  apply_sorting(UNION {sort(lf, sort_configs[i].column, ~ascending) : lf \in lfs},
                           sort_configs, i + 1)

\* lf.limit(n)
limit(lf, n) ==
    IF lf.status # "Ok" THEN lf
    ELSE Logged([lf EXCEPT !.rows = SubSeq(@, 1, IF n < Len(@) THEN n ELSE Len(@))], "limit")

\* apply_chart_transformations, collected: the frames it can hand to the renderer
apply_chart_transformations(lf, c) ==
    LET filtered == IF IsSome(c.filter) THEN apply_filter_config(lf, Unwrap(c.filter)) ELSE lf
        group_by_col == IF IsSome(c.group_by) THEN Unwrap(c.group_by) ELSE Unwrap(c.x)
        grouped ==
            IF IsSome(c.agg)
            THEN apply_aggregation(filtered, group_by_col, Unwrap(c.y), Unwrap(c.agg))
            ELSE {filtered}
        sorted ==
            IF IsSome(c.sort)
            THEN {Logged(lf2, "sort") : lf2 \in apply_sorting(grouped, Unwrap(c.sort), 1)}
            ELSE grouped
    IN  IF transformations_panic(c) THEN {Failed(lf, "Panic")}
        ELSE IF IsSome(c.limit) THEN {limit(lf3, Unwrap(c.limit)) : lf3 \in sorted}
        ELSE sorted

-----------------------------------------------------------------------------
(* The charts the transform steps are run on: line charts of users by channel *)

LineChart == [DefaultConfig EXCEPT !.x = Some("channel"), !.y = Some("users")]

\* the entries a filter map can hold for the two string columns
ChannelEntries ==
    {Single("A"), Single("B"), Multiple(<<"A", "B">>), Multiple(<<"B", "C">>)}

DeviceEntries == {Single("A"), Multiple(<<"A", "B">>)}

FilterMaps ==
    {None}
    \cup {Some([k \in {"channel"} |-> c]) : c \in ChannelEntries}
    \cup {Some([k \in {"device"} |-> d]) : d \in DeviceEntries}
    \cup {Some([k \in {"channel", "device"} |-> IF k = "channel" THEN c ELSE d])
            : c \in ChannelEntries, d \in DeviceEntries}

FilterCharts ==
    {[LineChart EXCEPT !.filter = Some(FilterConfig(inc, exc, None))]
        : inc \in FilterMaps, exc \in FilterMaps} \
    {[LineChart EXCEPT !.filter = Some(EmptyFilter)]}

SortEntries ==
    {SortConfig(column, ascending)
        : column \in {"channel", "users"}, ascending \in {None, Some(TRUE), Some(FALSE)}}

SortCharts ==
    {[LineChart EXCEPT !.sort = Some(s)] : s \in SeqsUpTo(SortEntries, 2) \ {<<>>}}

SourceMedium == [source_medium |-> <<"source_medium(", "channel", ",", "device", ")">>]

PipelineCharts ==
    {[LineChart EXCEPT !.filter = f, !.derive = d, !.group_by = g, !.agg = a,
                       !.sort = s, !.limit = l]
        : f \in {None, Some(FilterConfig(Some([k \in {"channel"} |-> Multiple(<<"A", "B">>)]),
                                         None, None))},
          d \in {None, Some(SourceMedium)},
          g \in {None, Some("device")},
          a \in {None, Some("Sum"), Some("Count")},
          s \in {None, Some(<<SortConfig("users", Some(FALSE))>>)},
          l \in {None, Some(1)}}

InitTransform ==
    /\ pc = "start"
    /\ config = DefaultConfig
    /\ df = NoFrame
    /\ result = NoResult
    /\ BatchIdle

\* process_single_chart up to the transform: the config is valid, the data is
\* loaded and the required columns are there
LoadChart ==
    /\ pc = "start"
    /\ \E c \in FilterCharts \cup SortCharts \cup PipelineCharts, frame \in Frames :
        /\ validate(c) = {Ok}
        /\ config' = c
        /\ df' = frame
    /\ pc' = "loaded"
    /\ UNCHANGED <<result, batchVars>>

\* apply_chart_transformations, and the collect of render_chart
Transform ==
    /\ pc = "loaded"
    /\ \E lf \in apply_chart_transformations(Lazy(df), config) : result' = lf
    /\ pc' = "transformed"
    /\ UNCHANGED <<config, df, batchVars>>

NextTransform == LoadChart \/ Transform

SpecTransform == InitTransform /\ [][NextTransform]_vars

-----------------------------------------------------------------------------
(* Claims on the transform steps *)

ValuesOf(fv) == {fv.values[i] : i \in 1..Len(fv.values)}

\* a row satisfies every include entry and every exclude entry of a filter
Satisfies(r, filter) ==
    /\ \A k \in DOMAIN entries(filter.include) :
            r[k] \in ValuesOf(entries(filter.include)[k])
    /\ \A k \in DOMAIN entries(filter.exclude) :
            r[k] \notin ValuesOf(entries(filter.exclude)[k])

Kept(rows, filter) == LET keep(r) == Satisfies(r, filter) IN SelectSeq(rows, keep)

OnlyFilter(c) ==
    IsSome(c.filter) /\ IsNone(c.agg) /\ IsNone(c.sort) /\ IsNone(c.limit)

\* C5: the filter step keeps exactly the rows, in their order, that are in the
\* value set of every include entry and in the value set of no exclude entry.
C5_FilterKeepsExactly ==
    (pc = "transformed" /\ OnlyFilter(config)) =>
        /\ result.status = "Ok"
        /\ result.rows = Kept(df.rows, Unwrap(config.filter))

\* an include on a two-value set together with an exclude on another column has
\* kept one row of two
C5_Witness ==
    /\ pc = "transformed"
    /\ OnlyFilter(config)
    /\ Unwrap(config.filter).include = Some([k \in {"channel"} |-> Multiple(<<"A", "B">>)])
    /\ Unwrap(config.filter).exclude = Some([k \in {"device"} |-> Single("A")])
    /\ Len(df.rows) = 2
    /\ Len(result.rows) = 1

ascending_of(sc) == IF IsSome(sc.ascending) THEN Unwrap(sc.ascending) ELSE TRUE

\* row a may stand before row b in the lexicographic order of the sort list
\* from entry i on
RECURSIVE LexOrdered(_, _, _, _)
LexOrdered(a, b, sort_configs, i) ==
    IF i > Len(sort_configs) THEN TRUE
    ELSE LET ka == key(a, sort_configs[i].column)
             kb == key(b, sort_configs[i].column)
         IN  IF ka = kb THEN LexOrdered(a, b, sort_configs, i + 1)
             ELSE IF ascending_of(sort_configs[i]) THEN ka < kb ELSE ka > kb

OnlySort(c) ==
    IsSome(c.sort) /\ IsNone(c.filter) /\ IsNone(c.agg) /\ IsNone(c.limit)

\* C6: with a sort list the output rows are in the lexicographic order of the
\* entries, the first entry being the primary key.
C6_LexicographicSort ==
    (pc = "transformed" /\ OnlySort(config) /\ result.status = "Ok") =>
        \A i \in 1..(Len(result.rows) - 1) :
            LexOrdered(result.rows[i], result.rows[i + 1], Unwrap(config.sort), 1)

\* the steps a config asks for, in the order of section 4.2
ConfiguredSteps(c) ==
    (IF IsSome(c.filter) THEN <<"filter">> ELSE <<>>)
    \o (IF IsSome(c.derive) THEN <<"derive">> ELSE <<>>)
    \o (IF IsSome(c.group_by) /\ IsSome(c.agg) THEN <<"group">> ELSE <<>>)
    \o (IF IsSome(c.sort) THEN <<"sort">> ELSE <<>>)
    \o (IF IsSome(c.limit) THEN <<"limit">> ELSE <<>>)

\* C7: the frame handed to the renderer went through every configured step once,
\* in the order filter, derive, group, sort, limit, and holds every derived column.
C7_FixedStepOrder ==
    (pc = "transformed" /\ result.status = "Ok") =>
        /\ result.steps = ConfiguredSteps(config)
        /\ IsSome(config.derive) =>
                \A name \in DOMAIN Unwrap(config.derive) : HasColumn(result.columns, name)

-----------------------------------------------------------------------------
(* The renderers.  A renderer gets the collected frame and the config; what  *)
(* it computes before drawing (categories, intervals, percentages, segments) *)
(* is kept in its result together with whether anything was drawn.           *)

\* extract_numeric_value: the same function in every chart module
extract_numeric_value(value) ==
    IF value.type \in {"Int32", "Int64", "Float32", "Float64", "UInt32", "UInt64"}
    THEN Some(value.v)
    ELSE None

\* Option::unwrap_or
unwrap_or(o, default) == IF IsSome(o) THEN Unwrap(o) ELSE default

StackedRowCap == 50

RetentionRowCap == 100

Take(rows, n) == SubSeq(rows, 1, IF n < Len(rows) THEN n ELSE Len(rows))

\* HashMap::insert: a later value replaces the value the key has
insert(m, k, v) == (k :> v) @@ m

\* map.get(k).unwrap_or(default)
get_or(m, k, default) == IF k \in DOMAIN m THEN m[k] ELSE default

Contains(s, v) == \E i \in 1..Len(s) : s[i] = v

\* into_iter().collect() followed by sort(): the strings of a set in ascending order
sorted_strings(S) ==
    CHOOSE s \in Injections(Cardinality(S), S) :
        \A i, j \in 1..Cardinality(S) : i < j => ord(s[i]) < ord(s[j])

\* the same for a set of i32
sorted_periods(S) ==
    CHOOSE s \in Injections(Cardinality(S), S) :
        \A i, j \in 1..Cardinality(S) : i < j => s[i] < s[j]

RenderOk(drawn, computed) == [status |-> "Ok", drawn |-> drawn] @@ computed

RenderErr(message, detail) == [status |-> "Err", message |-> message, detail |-> detail, drawn |-> FALSE]

-----------------------------------------------------------------------------
(* chart/bar_stacked.rs *)

\* the loop over the first 50 rows of render_stacked_bar_with_x
RECURSIVE collect_category_data(_, _, _, _, _, _)
collect_category_data(rows, i, x, y, group, acc) ==
    IF i > Len(rows) THEN acc
    ELSE LET x_str == rows[i][x]
             group_str == rows[i][group]
         IN  collect_category_data(rows, i + 1, x, y, group,
                [category_data |->
                    insert(acc.category_data, x_str,
                           insert(get_or(acc.category_data, x_str, <<>>), group_str,
                                  unwrap_or(extract_numeric_value(rows[i][y]), 0))),
                 all_groups |-> acc.all_groups \cup {group_str},
                 categories |-> IF Contains(acc.categories, x_str) THEN acc.categories
                                ELSE Append(acc.categories, x_str)])

\* intervals that all start at 0
RECURSIVE category_stacks_mut(_, _, _, _)
category_stacks_mut(cat_map, groups, i, current_stack) ==
    IF i > Len(groups) THEN <<>>
    ELSE LET value == get_or(cat_map, groups[i], 0)
         IN  <<<<0, value>>>> \o category_stacks_mut(cat_map, groups, i + 1, current_stack)

\* for group in &groups { category_stacks.push((current_stack, current_stack + value)); .. }
RECURSIVE category_stacks(_, _, _, _)
category_stacks(cat_map, groups, i, current_stack) ==
    IF i > Len(groups) THEN <<>>
    ELSE LET value == get_or(cat_map, groups[i], 0)
         IN  <<<<current_stack, current_stack + value>>>>
             \o category_stacks(cat_map, groups, i + 1, current_stack + value)

\* stacks.last().map(|(_, end)| *end).unwrap_or(0.0)
last_end(stacks) == IF stacks = <<>> THEN 0 ELSE stacks[Len(stacks)][2]

\* fold(0.0f32, f32::max)
RECURSIVE fold_max(_, _)
fold_max(s, acc) ==
    IF s = <<>> THEN acc ELSE fold_max(Tail(s), IF Head(s) > acc THEN Head(s) ELSE acc)

\* let y_range = 0f32..(max_height * 1.1), in tenths
y_range(max_height) == <<0, max_height * 11>>

render_stacked_bar_with_x(frame, c, group_by_col) ==
    IF ~HasColumn(frame.columns, Unwrap(c.y)) THEN RenderErr("Y column not found", <<>>)
    ELSE IF ~HasColumn(frame.columns, group_by_col) THEN RenderErr("Group column not found", <<>>)
    ELSE LET collected ==
                collect_category_data(Take(frame.rows, StackedRowCap), 1, Unwrap(c.x),
                                      Unwrap(c.y), group_by_col,
                                      [category_data |-> <<>>, all_groups |-> {},
                                       categories |-> <<>>])
             categories == collected.categories
             groups == sorted_strings(collected.all_groups)
             stacked_data ==
                [k \in 1..Len(categories) |->
                    category_stacks(get_or(collected.category_data, categories[k], <<>>),
                                    groups, 1, 0)]
             max_height == fold_max([k \in 1..Len(categories) |-> last_end(stacked_data[k])], 0)
         IN  IF categories = <<>>
             THEN RenderOk(FALSE, [categories |-> <<>>, groups |-> <<>>, stacked_data |-> <<>>,
                                   y_range |-> <<0, 0>>])
             ELSE RenderOk(max_height # 0,
                           [categories |-> categories, groups |-> groups,
                            stacked_data |-> stacked_data,
                            y_range |-> y_range(max_height)])

\* the loop over the first 50 rows of render_stacked_bar_grouped
RECURSIVE collect_group_data(_, _, _, _, _)
collect_group_data(rows, i, y, group, acc) ==
    IF i > Len(rows) THEN acc
    ELSE LET group_str == rows[i][group]
         IN  collect_group_data(rows, i + 1, y, group,
                [group_data |-> insert(acc.group_data, group_str,
                                        unwrap_or(extract_numeric_value(rows[i][y]), 0)),
                 groups |-> IF Contains(acc.groups, group_str) THEN acc.groups
                            ELSE Append(acc.groups, group_str)])

\* the frame has no x column: a single bar over the groups
render_stacked_bar_grouped(frame, c, group_by_col) ==
    IF ~HasColumn(frame.columns, group_by_col) THEN RenderErr("Group column not found", <<>>)
    ELSE IF ~HasColumn(frame.columns, Unwrap(c.y)) THEN RenderErr("Value column not found", <<>>)
    ELSE LET collected ==
                collect_group_data(Take(frame.rows, StackedRowCap), 1, Unwrap(c.y), group_by_col,
                                   [group_data |-> <<>>, groups |-> <<>>])
             groups == sorted_strings({collected.groups[i] : i \in 1..Len(collected.groups)})
             stacked_data == category_stacks(collected.group_data, groups, 1, 0)
         IN  IF collected.groups = <<>>
             THEN RenderOk(FALSE, [categories |-> <<>>, groups |-> <<>>, stacked_data |-> <<>>,
                                   y_range |-> <<0, 0>>])
             ELSE RenderOk(last_end(stacked_data) # 0,
                           [categories |-> <<>>, groups |-> groups,
                            stacked_data |-> <<stacked_data>>,
                            y_range |-> y_range(last_end(stacked_data))])

bar_stacked_render(frame, c) ==
    IF IsNone(c.group_by) THEN RenderErr("Stacked bar charts require a 'group_by' field", <<>>)
    ELSE IF HasColumn(frame.columns, Unwrap(c.x))
        THEN render_stacked_bar_with_x(frame, c, Unwrap(c.group_by))
    ELSE render_stacked_bar_grouped(frame, c, Unwrap(c.group_by))

-----------------------------------------------------------------------------
(* chart/retention.rs *)

\* the loop over the first 100 rows of render
RECURSIVE collect_retention_data(_, _, _, _, _, _)
collect_retention_data(rows, i, cohort, period, users, acc) ==
    IF i > Len(rows) THEN acc
    ELSE LET cohort_str == rows[i][cohort]
             \* extract_numeric_value(period_val).unwrap_or(0.0) as i32
             period_num == unwrap_or(extract_numeric_value(rows[i][period]), 0)
         IN  collect_retention_data(rows, i + 1, cohort, period, users,
                [retention_data |->
                    insert(acc.retention_data, cohort_str,
                           insert(get_or(acc.retention_data, cohort_str, <<>>),
                                  period_num,
                                  unwrap_or(extract_numeric_value(rows[i][users]), 0))),
                 all_cohorts |-> acc.all_cohorts \cup {cohort_str},
                 all_periods |-> acc.all_periods \cup {period_num}])

\* periods.iter().filter_map(|&p| cohort_data.get(&p)).next().unwrap_or(&0.0)
RECURSIVE baseline(_, _, _)
baseline(cohort_data, periods, i) ==
    IF i > Len(periods) THEN 0
    ELSE IF periods[i] \in DOMAIN cohort_data THEN cohort_data[periods[i]]
    ELSE baseline(cohort_data, periods, i + 1)

\* if *baseline > 0.0 { (value / baseline) * 100.0 } else { 0.0 }; the user counts
\* of the frames below divide without a remainder
retention_pct(value, base) == IF base > 0 THEN (value * 100) \div base ELSE 0

retention_render(frame, c) ==
    IF IsNone(c.cohort_date) THEN RenderErr("Retention charts require a 'cohort_date' field", <<>>)
    ELSE IF IsNone(c.period_number)
        THEN RenderErr("Retention charts require a 'period_number' field", <<>>)
    ELSE IF IsNone(c.users) THEN RenderErr("Retention charts require a 'users' field", <<>>)
    ELSE IF ~HasColumn(frame.columns, Unwrap(c.cohort_date))
        THEN RenderErr("Cohort date column not found", <<>>)
    ELSE IF ~HasColumn(frame.columns, Unwrap(c.period_number))
        THEN RenderErr("Period number column not found", <<>>)
    ELSE IF ~HasColumn(frame.columns, Unwrap(c.users))
        THEN RenderErr("Users column not found", <<>>)
    ELSE LET collected ==
                collect_retention_data(Take(frame.rows, RetentionRowCap), 1,
                                       Unwrap(c.cohort_date), Unwrap(c.period_number),
                                       Unwrap(c.users),
                                       [retention_data |-> <<>>, all_cohorts |-> {},
                                        all_periods |-> {}])
             cohorts == sorted_strings(collected.all_cohorts)
             periods == sorted_periods(collected.all_periods)
             retention_matrix ==
                [k \in 1..Len(cohorts) |->
                    LET cohort_data == collected.retention_data[cohorts[k]]
                    IN  [j \in 1..Len(periods) |->
                            retention_pct(get_or(cohort_data, periods[j], 0),
                                          baseline(cohort_data, periods, 1))]]
             max_retention ==
                fold_max([n \in 1..(Len(cohorts) * Len(periods)) |->
                            retention_matrix[((n - 1) \div Len(periods)) + 1]
                                            [((n - 1) % Len(periods)) + 1]], 0)
         IN  IF collected.all_cohorts = {}
             THEN RenderOk(FALSE, [cohorts |-> <<>>, periods |-> <<>>, retention_matrix |-> <<>>,
                                   retention_data |-> <<>>])
             ELSE RenderOk(max_retention # 0,
                           [cohorts |-> cohorts, periods |-> periods,
                            retention_matrix |-> retention_matrix,
                            retention_data |-> collected.retention_data])

-----------------------------------------------------------------------------
(* render/mod.rs: the surface and its split into chart area and legend area. *)
(* An area is the rectangle [x0, x1) x [y0, y1) of pixels.                   *)

\* config.width.unwrap_or(800), config.height.unwrap_or(600)
DefaultWidth == 800

DefaultHeight == 600

LegendPosition == {"Right", "Left", "Top", "Bottom"}

Area(x0, y0, x1, y1) == [x0 |-> x0, y0 |-> y0, x1 |-> x1, y1 |-> y1]

\* root.split_horizontally(x): the columns left of x, and the rest
split_horizontally(root, x) ==
    LET at == IF root.x0 + x < root.x1 THEN root.x0 + x ELSE root.x1
    IN  <<Area(root.x0, root.y0, at, root.y1), Area(at, root.y0, root.x1, root.y1)>>

\* root.split_vertically(y): the rows above y, and the rest
split_vertically(root, y) ==
    LET at == IF root.y0 + y < root.y1 THEN root.y0 + y ELSE root.y1
    IN  <<Area(root.x0, root.y0, root.x1, at), Area(root.x0, at, root.x1, root.y1)>>

\* a split that reserves 15% of the width for a legend on the left or right
split_drawing_area_mut(root, legend_position) ==
    LET width == root.x1 - root.x0
        height == root.y1 - root.y0
        legend_width == (width * 15) \div 100
        legend_height == (height * 15) \div 100
    IN  CASE legend_position = "Right" ->
                LET halves == split_horizontally(root, width - legend_width)
                IN  <<halves[1], halves[2]>>
          [] legend_position = "Left" ->
                LET halves == split_horizontally(root, legend_width)
                IN  <<halves[2], halves[1]>>
          [] legend_position = "Top" ->
                LET halves == split_vertically(root, legend_height)
                IN  <<halves[2], halves[1]>>
          [] legend_position = "Bottom" ->
                LET halves == split_vertically(root, height - legend_height)
                IN  <<halves[1], halves[2]>>

\* split_drawing_area: <<chart_area, legend_area>>; (width as f32 * 0.25) as u32
\* and (height as f32 * 0.15) as u32 round towards zero
split_drawing_area(root, legend_position) ==
    LET width == root.x1 - root.x0
        height == root.y1 - root.y0
        legend_width == IF legend_position \in {"Right", "Left"}
                        THEN (width * 25) \div 100 ELSE (width * 15) \div 100
        legend_height == (height * 15) \div 100
    IN  CASE legend_position = "Right" ->
                LET halves == split_horizontally(root, width - legend_width)
                IN  <<halves[1], halves[2]>>
          [] legend_position = "Left" ->
                LET halves == split_horizontally(root, legend_width)
                IN  <<halves[2], halves[1]>>
          [] legend_position = "Top" ->
                LET halves == split_vertically(root, legend_height)
                IN  <<halves[2], halves[1]>>
          [] legend_position = "Bottom" ->
                LET halves == split_vertically(root, height - legend_height)
                IN  <<halves[1], halves[2]>>

\* the chart area of a config: the legend is on the right unless configured
chart_area(c) ==
    split_drawing_area(Area(0, 0, unwrap_or(c.width, DefaultWidth),
                            unwrap_or(c.height, DefaultHeight)), "Right")[1]

\* u32::saturating_sub
saturating_sub(a, b) == IF a > b THEN a - b ELSE 0

\* render_external_legend: the text drawn for a legend item, a string being a
\* sequence of characters
display_text(item, legend_width) ==
    LET available_width == saturating_sub(legend_width, 60)
        max_chars == available_width \div 8
    IN  IF Len(item) > max_chars /\ max_chars > 10
        THEN SubSeq(item, 1, saturating_sub(max_chars, 3)) \o <<".", ".", ".">>
        ELSE item

-----------------------------------------------------------------------------
(* chart/funnel.rs *)

\* for (step_idx, step) in steps.iter().enumerate() { if step_idx < df.height() .. }
step_values_of(steps, rows, values_col) ==
    [i \in 1..(IF Len(steps) < Len(rows) THEN Len(steps) ELSE Len(rows)) |->
        <<steps[i], unwrap_or(extract_numeric_value(rows[i][values_col]), 0)>>]

\* sorted.sort_by(|a, b| b.1.partial_cmp(&a.1)): a stable sort, largest value first
\* an insertion that puts a step before the steps of equal value
RECURSIVE insert_descending_mut(_, _)
insert_descending_mut(sorted, e) ==
    IF sorted = <<>> THEN <<e>>
    ELSE IF Head(sorted)[2] > e[2]
        THEN <<Head(sorted)>> \o insert_descending_mut(Tail(sorted), e)
    ELSE <<e>> \o sorted

RECURSIVE insert_descending(_, _)
insert_descending(sorted, e) ==
    IF sorted = <<>> THEN <<e>>
    ELSE IF Head(sorted)[2] >= e[2] THEN <<Head(sorted)>> \o insert_descending(Tail(sorted), e)
    ELSE <<e>> \o sorted

RECURSIVE sort_descending(_, _, _)
sort_descending(step_values, i, sorted) ==
    IF i > Len(step_values) THEN sorted
    ELSE sort_descending(step_values, i + 1, insert_descending(sorted, step_values[i]))

\* (funnel_width as f32 * (value / max_value)) as u32: a negative product is 0
segment_width(funnel_width, value, max_value) ==
    IF value <= 0 THEN 0 ELSE (funnel_width * value) \div max_value

funnel_render(frame, c) ==
    IF IsNone(c.steps) THEN RenderErr("Funnel charts require a 'steps' field", <<>>)
    ELSE IF IsNone(c.values) THEN RenderErr("Funnel charts require a 'values' field", <<>>)
    ELSE IF ~HasColumn(frame.columns, Unwrap(c.values))
        THEN RenderErr("Values column not found", <<>>)
    ELSE LET step_values == step_values_of(Unwrap(c.steps), frame.rows, Unwrap(c.values))
             step_order == Unwrap(c.step_order)
             ordered_step_values ==
                IF IsSome(c.step_order)
                THEN [i \in 1..Len(step_order) |-> step_values[step_order[i] + 1]]
                ELSE sort_descending(step_values, 1, <<>>)
             max_value ==
                fold_max([i \in 1..Len(ordered_step_values) |-> ordered_step_values[i][2]], 0)
             \* (width as f32 * 0.6) as u32
             funnel_width == ((chart_area(c).x1 - chart_area(c).x0) * 6) \div 10
         IN  IF step_values = <<>> THEN RenderOk(FALSE, [segments |-> <<>>, widths |-> <<>>])
             ELSE IF IsSome(c.step_order) /\ Len(step_order) # Len(step_values)
                THEN RenderErr("Step order length must match number of steps",
                               <<Len(step_order), Len(step_values)>>)
             ELSE IF IsSome(c.step_order)
                     /\ \E i \in 1..Len(step_order) : step_order[i] >= Len(step_values)
                THEN LET first == CHOOSE i \in 1..Len(step_order) :
                                    /\ step_order[i] >= Len(step_values)
                                    /\ \A j \in 1..(i - 1) : step_order[j] < Len(step_values)
                     IN  RenderErr("Invalid step order index",
                                   <<step_order[first], Len(step_values) - 1>>)
             ELSE RenderOk(max_value # 0,
                    [segments |-> ordered_step_values,
                     widths |-> IF max_value = 0 THEN <<>>
                                ELSE [i \in 1..Len(ordered_step_values) |->
                                        segment_width(funnel_width, ordered_step_values[i][2],
                                                      max_value)]])

-----------------------------------------------------------------------------
(* chart/line.rs, chart/area.rs, chart/bar.rs, chart/scatter.rs *)

AreaRowCap == 100

BarRowCap == 20

ScatterRowCap == 1000

HeatmapRowCap == 100

\* config.x.as_ref().unwrap() on a config without x
RenderPanic == [status |-> "Panic", drawn |-> FALSE]

\* data_points.push((i, y)) for every row: the index, counted from 0, and the value
index_points(rows, value_col) ==
    [i \in 1..Len(rows) |-> <<i - 1, unwrap_or(extract_numeric_value(rows[i][value_col]), 0)>>]

\* the simple and the grouped variant of the line, area and bar renderers read
\* two columns and plot the second one
xy_render(frame, c, rows) ==
    IF IsSome(c.group_by)
    THEN IF ~HasColumn(frame.columns, Unwrap(c.group_by))
            THEN RenderErr("Group column not found", <<>>)
         ELSE IF IsNone(c.y) THEN RenderPanic
         ELSE IF ~HasColumn(frame.columns, Unwrap(c.y))
            THEN RenderErr("Value column not found", <<>>)
         ELSE RenderOk(rows # <<>>, [data_points |-> index_points(rows, Unwrap(c.y))])
    ELSE IF IsNone(c.x) THEN RenderPanic
    ELSE IF ~HasColumn(frame.columns, Unwrap(c.x)) THEN RenderErr("X column not found", <<>>)
    ELSE IF IsNone(c.y) THEN RenderPanic
    ELSE IF ~HasColumn(frame.columns, Unwrap(c.y)) THEN RenderErr("Y column not found", <<>>)
    ELSE RenderOk(rows # <<>>, [data_points |-> index_points(rows, Unwrap(c.y))])

\* for i in 0..df.height()
line_render(frame, c) == xy_render(frame, c, frame.rows)

\* for i in 0..df.height().min(100)
area_render(frame, c) == xy_render(frame, c, Take(frame.rows, AreaRowCap))

\* for i in 0..df.height().min(20)
bar_render(frame, c) == xy_render(frame, c, Take(frame.rows, BarRowCap))

\* col.get(i): the string columns hold Utf8 values
cell(row, column) == IF column \in {"channel", "device", "cohort"} THEN Utf8 ELSE row[column]

\* the x of a point is the number of the x cell, or the row index
scatter_render(frame, c) ==
    IF IsNone(c.x) THEN RenderPanic
    ELSE IF ~HasColumn(frame.columns, Unwrap(c.x)) THEN RenderErr("X column not found", <<>>)
    ELSE IF IsNone(c.y) THEN RenderPanic
    ELSE IF ~HasColumn(frame.columns, Unwrap(c.y)) THEN RenderErr("Y column not found", <<>>)
    ELSE LET rows == Take(frame.rows, ScatterRowCap)
         IN  RenderOk(rows # <<>>,
                [data_points |->
                    [i \in 1..Len(rows) |->
                        <<unwrap_or(extract_numeric_value(cell(rows[i], Unwrap(c.x))), i - 1),
                          unwrap_or(extract_numeric_value(rows[i][Unwrap(c.y)]), 0)>>]])

-----------------------------------------------------------------------------
(* chart/heatmap.rs *)

\* the rows whose z cell holds a number: (i, i, z_value)
RECURSIVE heatmap_points(_, _, _)
heatmap_points(rows, i, z) ==
    IF i > Len(rows) THEN <<>>
    ELSE LET z_value == extract_numeric_value(rows[i][z])
         IN  (IF IsSome(z_value) THEN <<<<i - 1, i - 1, Unwrap(z_value)>>>> ELSE <<>>)
             \o heatmap_points(rows, i + 1, z)

\* fold(z_max, f32::min)
RECURSIVE fold_min(_, _)
fold_min(s, acc) ==
    IF s = <<>> THEN acc ELSE fold_min(Tail(s), IF Head(s) < acc THEN Head(s) ELSE acc)

\* if z_max > z_min { (z - z_min) / (z_max - z_min) } else { 0.5 }, as a fraction
intensity(z, z_min, z_max) ==
    IF z_max > z_min THEN [num |-> z - z_min, den |-> z_max - z_min]
    ELSE [num |-> 1, den |-> 2]

\* the renderer of a heatmap that has a z
heatmap_with_z(frame, c) ==
    IF IsNone(c.x) THEN RenderPanic
    ELSE IF ~HasColumn(frame.columns, Unwrap(c.x)) THEN RenderErr("X column not found", <<>>)
    ELSE IF IsNone(c.y) THEN RenderPanic
    ELSE IF ~HasColumn(frame.columns, Unwrap(c.y)) THEN RenderErr("Y column not found", <<>>)
    ELSE IF ~HasColumn(frame.columns, Unwrap(c.z)) THEN RenderErr("Z column not found", <<>>)
    ELSE LET data_points == heatmap_points(Take(frame.rows, HeatmapRowCap), 1, Unwrap(c.z))
             zs == [i \in 1..Len(data_points) |-> data_points[i][3]]
             z_max == fold_max(zs, 0)
             z_min == fold_min(zs, z_max)
         IN  IF data_points = <<>>
             THEN RenderOk(FALSE, [data_points |-> <<>>, intensities |-> <<>>])
             ELSE RenderOk(TRUE,
                    [data_points |-> data_points,
                     intensities |->
                        [i \in 1..Len(zs) |-> intensity(zs[i], z_min, z_max)]])

\* a renderer that takes a missing z for an error
heatmap_render_mut(frame, c) ==
    IF IsNone(c.z) THEN RenderErr(ErrZ, <<>>) ELSE heatmap_with_z(frame, c)

\* if config.z.is_none() { return bar::render(df, config, root, title, legend_position); }
heatmap_render(frame, c) ==
    IF IsNone(c.z) THEN bar_render(frame, c) ELSE heatmap_with_z(frame, c)

-----------------------------------------------------------------------------
(* The frames and charts the renderers are run on *)

\* the cells of a plotted column: numbers and a string
StackedValues == {Int64(0 - 1), Int64(0), Int64(1), Int64(2), Utf8}

StackedRows == [channel : {"A", "B"}, device : Devices, users : StackedValues]

GroupedRows == [device : Devices, users : StackedValues]

StackedFrames ==
    {[columns |-> Schema, rows |-> rs] : rs \in SeqsUpTo(StackedRows, MaxRows)}
    \cup {[columns |-> <<"device", "users">>, rows |-> rs] : rs \in SeqsUpTo(GroupedRows, MaxRows)}

StackedCharts ==
    {[DefaultConfig EXCEPT !.chart_type = "BarStacked", !.x = Some("channel"),
                           !.y = Some("users"), !.group_by = g]
        : g \in {None, Some("device")}}

RetentionRows ==
    [cohort : {"A", "B"}, period : {Int64(0), Int64(1)},
     users : {Int64(0 - 2), Int64(0), Int64(1), Int64(2), Utf8}]

RetentionFrames ==
    {[columns |-> <<"cohort", "period", "users">>, rows |-> rs]
        : rs \in SeqsUpTo(RetentionRows, MaxRows)}

RetentionCharts ==
    {[DefaultConfig EXCEPT !.chart_type = "Retention", !.cohort_date = Some("cohort"),
                           !.period_number = Some("period"), !.users = Some("users")]}

MaxSteps == 3

FunnelRows == [count : {Int64(0 - 1), Int64(0), Int64(1), Int64(2), Utf8}]

FunnelFrames == {[columns |-> <<"count">>, rows |-> rs] : rs \in SeqsUpTo(FunnelRows, MaxRows)}

StepNames == <<"A", "B", "C", "D">>

FunnelCharts ==
    {[DefaultConfig EXCEPT !.chart_type = "Funnel", !.steps = Some(SubSeq(StepNames, 1, n)),
                           !.values = Some("count"), !.step_order = o]
        : n \in 1..MaxSteps, o \in Opt(SeqsUpTo(0..MaxSteps, MaxSteps))}

PlotValues == {Int64(0 - 2), Int64(0 - 1), Int64(1), Int64(2), Utf8, NullCell}

PlotRows == [channel : {"A", "B"}, device : {"A"}, users : PlotValues]

PlotFrames == {[columns |-> Schema, rows |-> rs] : rs \in SeqsUpTo(PlotRows, MaxRows)}

PlotCharts ==
    {[DefaultConfig EXCEPT !.chart_type = t, !.x = Some("channel"), !.y = Some("users"),
                           !.group_by = g]
        : t \in {"Line", "Area", "Bar", "Scatter"}, g \in {None, Some("device")}}

HeatmapCharts ==
    {[DefaultConfig EXCEPT !.chart_type = "Heatmap", !.x = Some("channel"),
                           !.y = Some("device"), !.z = Some("users")]}

\* heatmap configs without z: validate rejects them, render_chart takes them
HeatmapChartsWithoutZ ==
    {[DefaultConfig EXCEPT !.chart_type = "Heatmap", !.x = Some("channel"),
                           !.y = Some("users"), !.group_by = g]
        : g \in {None, Some("device")}}

InitRender ==
    /\ pc = "start"
    /\ config = DefaultConfig
    /\ df = NoFrame
    /\ result = NoResult
    /\ BatchIdle

\* render_chart: a valid config and the frame collected from the transform steps
CollectFrame ==
    /\ pc = "start"
    /\ \E cf \in (StackedCharts \X StackedFrames) \cup (RetentionCharts \X RetentionFrames)
                    \cup (FunnelCharts \X FunnelFrames)
                    \cup ((PlotCharts \cup HeatmapCharts \cup HeatmapChartsWithoutZ)
                            \X PlotFrames) :
        /\ validate(cf[1]) = {Ok} \/ cf[1] \in HeatmapChartsWithoutZ
        /\ config' = cf[1]
        /\ df' = cf[2]
    /\ pc' = "collected"
    /\ UNCHANGED <<result, batchVars>>

\* render/mod.rs: get_legend_items.  The stacked-bar items come out of a HashSet,
\* in any order: the result is the set of the item lists it can return
get_legend_items(frame, c) ==
    LET y_item == IF IsSome(c.y) THEN <<Unwrap(c.y)>> ELSE <<>>
    IN  CASE c.chart_type = "BarStacked" ->
                IF IsSome(c.group_by) /\ HasColumn(frame.columns, Unwrap(c.group_by))
                THEN LET rows == Take(frame.rows, StackedRowCap)
                         unique_groups == {rows[i][Unwrap(c.group_by)] : i \in 1..Len(rows)}
                     IN  Injections(Cardinality(unique_groups), unique_groups)
                ELSE {<<>>}
          [] c.chart_type = "Scatter" ->
                IF IsSome(c.x) /\ IsSome(c.y)
                THEN {<<<<Unwrap(c.y), " vs ", Unwrap(c.x)>>>>}
                ELSE {<<>>}
          [] c.chart_type = "Funnel" ->
                IF IsNone(c.steps) THEN {<<>>}
                ELSE LET steps == Unwrap(c.steps)
                         step_order == Unwrap(c.step_order)
                         in_range(idx) == idx < Len(steps)
                         kept == SelectSeq(step_order, in_range)
                     IN  IF IsSome(c.step_order) /\ Len(step_order) = Len(steps)
                         THEN {[i \in 1..Len(kept) |-> steps[kept[i] + 1]]}
                         ELSE {steps}
          [] c.chart_type = "Retention" -> {<<"Retention %">>}
          [] OTHER -> {y_item}

\* render_chart_impl: the chart's renderer, and after its success the legend
render_chart_impl(rendered, frame, c) ==
    IF rendered.status = "Ok"
    THEN {rendered @@ [legend |-> items] : items \in get_legend_items(frame, c)}
    ELSE {rendered}

\* render_chart_impl: ChartType::BarStacked
RenderBarStacked ==
    /\ pc = "collected"
    /\ config.chart_type = "BarStacked"
    /\ result' \in render_chart_impl(bar_stacked_render(df, config), df, config)
    /\ pc' = "rendered"
    /\ UNCHANGED <<config, df, batchVars>>

\* render_chart_impl: ChartType::Retention
RenderRetention ==
    /\ pc = "collected"
    /\ config.chart_type = "Retention"
    /\ result' \in render_chart_impl(retention_render(df, config), df, config)
    /\ pc' = "rendered"
    /\ UNCHANGED <<config, df, batchVars>>

\* render_chart_impl: ChartType::Funnel
RenderFunnel ==
    /\ pc = "collected"
    /\ config.chart_type = "Funnel"
    /\ result' \in render_chart_impl(funnel_render(df, config), df, config)
    /\ pc' = "rendered"
    /\ UNCHANGED <<config, df, batchVars>>

\* render_chart_impl: ChartType::Line
RenderLine ==
    /\ pc = "collected"
    /\ config.chart_type = "Line"
    /\ result' \in render_chart_impl(line_render(df, config), df, config)
    /\ pc' = "rendered"
    /\ UNCHANGED <<config, df, batchVars>>

\* render_chart_impl: ChartType::Area
RenderArea ==
    /\ pc = "collected"
    /\ config.chart_type = "Area"
    /\ result' \in render_chart_impl(area_render(df, config), df, config)
    /\ pc' = "rendered"
    /\ UNCHANGED <<config, df, batchVars>>

\* render_chart_impl: ChartType::Bar
RenderBar ==
    /\ pc = "collected"
    /\ config.chart_type = "Bar"
    /\ result' \in render_chart_impl(bar_render(df, config), df, config)
    /\ pc' = "rendered"
    /\ UNCHANGED <<config, df, batchVars>>

\* render_chart_impl: ChartType::Scatter
RenderScatter ==
    /\ pc = "collected"
    /\ config.chart_type = "Scatter"
    /\ result' \in render_chart_impl(scatter_render(df, config), df, config)
    /\ pc' = "rendered"
    /\ UNCHANGED <<config, df, batchVars>>

\* render_chart_impl: ChartType::Heatmap
RenderHeatmap ==
    /\ pc = "collected"
    /\ config.chart_type = "Heatmap"
    /\ result' \in render_chart_impl(heatmap_render(df, config), df, config)
    /\ pc' = "rendered"
    /\ UNCHANGED <<config, df, batchVars>>

NextRender ==
    \/ CollectFrame
    \/ RenderLine \/ RenderArea \/ RenderBar \/ RenderBarStacked
    \/ RenderHeatmap \/ RenderScatter \/ RenderFunnel \/ RenderRetention

SpecRender == InitRender /\ [][NextRender]_vars

-----------------------------------------------------------------------------
(* Claims on the renderers *)

Rendered(t) == pc = "rendered" /\ config.chart_type = t

\* the sum of the users column over the rows of the frame in category x
CategoryTotal(x) ==
    LET of_x(r) == r.channel = x IN sum(column_of(SelectSeq(df.rows, of_x), "users"))

\* C8: the last cumulative interval of every category drawn ends at the sum of
\* the y values of the input rows of that category.
C8_StackedTotals ==
    (Rendered("BarStacked") /\ result.status = "Ok" /\ result.drawn) =>
        IF HasColumn(df.columns, "channel")
        THEN \A k \in 1..Len(result.categories) :
                last_end(result.stacked_data[k]) = CategoryTotal(result.categories[k])
        ELSE last_end(result.stacked_data[1]) = sum(column_of(df.rows, "users"))

\* the user counts the frame gives for a cohort at the smallest period the cohort
\* has a row for
BaselinePeriod(c) ==
    CHOOSE p \in {df.rows[i].period.v : i \in {n \in 1..Len(df.rows) : df.rows[n].cohort = c}} :
        \A i \in 1..Len(df.rows) : df.rows[i].cohort = c => p <= df.rows[i].period.v

BaselineValues(c) ==
    {df.rows[i].users.v : i \in {n \in 1..Len(df.rows) :
                                   df.rows[n].cohort = c /\ df.rows[n].period.v = BaselinePeriod(c)}}

IndexOf(s, v) == CHOOSE i \in 1..Len(s) : s[i] = v

\* C9: a cohort with a nonzero value at its baseline period has percentage 100
\* there; a cohort whose baseline value is 0 has percentage 0 everywhere.
C9_BaselineIsHundred ==
    (Rendered("Retention") /\ result.status = "Ok") =>
        \A k \in 1..Len(result.cohorts) :
            LET c == result.cohorts[k]
                row == result.retention_matrix[k]
            IN  /\ (\A v \in BaselineValues(c) : v # 0) =>
                        row[IndexOf(result.periods, BaselinePeriod(c))] = 100
                /\ (\A v \in BaselineValues(c) : v = 0) =>
                        \A j \in 1..Len(row) : row[j] = 0

\* C10: a step_order is rejected, with nothing drawn, when its length differs from
\* the number of declared steps or an index is not below it; otherwise it is accepted.
C10_StepOrderChecked ==
    (Rendered("Funnel") /\ IsSome(config.step_order)) =>
        LET num_steps == Len(Unwrap(config.steps))
            step_order == Unwrap(config.step_order)
        IN  IF Len(step_order) # num_steps
            THEN /\ result.status = "Err"
                 /\ result.message = "Step order length must match number of steps"
                 /\ result.detail = <<Len(step_order), num_steps>>
                 /\ ~result.drawn
            ELSE IF \E i \in 1..Len(step_order) : step_order[i] >= num_steps
            THEN /\ result.status = "Err"
                 /\ result.message = "Invalid step order index"
                 /\ result.detail[2] = num_steps - 1
                 /\ ~result.drawn
            ELSE result.status = "Ok"

\* the step names of the segments, from the top of the funnel down
DrawnSteps == [i \in 1..Len(result.segments) |-> result.segments[i][1]]

\* C11: the legend of a funnel that was drawn lists the step names in the order
\* of the segments from top to bottom, with and without a step_order.
C11_LegendFollowsSegments ==
    (Rendered("Funnel") /\ result.status = "Ok" /\ result.drawn) =>
        result.legend = DrawnSteps

-----------------------------------------------------------------------------
(* cli.rs: process_single_chart, step by step.  An error is the anyhow chain *)
(* that is printed: the message, the column it names and the list of        *)
(* available columns it holds, if any.                                       *)

ProcessErr(stage, message, column, available) ==
    [status |-> "Err", stage |-> stage, message |-> message, column |-> column,
     available |-> available]

ProcessPanic(stage) == [status |-> "Panic", stage |-> stage]

\* cli.rs: get_required_columns
get_required_columns(c) ==
    (IF IsSome(c.x) THEN <<Unwrap(c.x)>> ELSE <<>>)
    \o (IF IsSome(c.y) THEN <<Unwrap(c.y)>> ELSE <<>>)
    \o (CASE c.chart_type = "Heatmap" -> (IF IsSome(c.z) THEN <<Unwrap(c.z)>> ELSE <<>>)
          [] c.chart_type = "Retention" ->
                (IF IsSome(c.cohort_date) THEN <<Unwrap(c.cohort_date)>> ELSE <<>>)
                \o (IF IsSome(c.period_number) THEN <<Unwrap(c.period_number)>> ELSE <<>>)
                \o (IF IsSome(c.users) THEN <<Unwrap(c.users)>> ELSE <<>>)
          [] OTHER -> <<>>)
    \o (IF IsSome(c.group_by) THEN <<Unwrap(c.group_by)>> ELSE <<>>)

\* data/loader.rs: validate_columns.  Both forms of the message name the first
\* missing column and print the available columns; the "Did you mean" line that
\* suggest_column_name may add is not part of the result
validate_columns(columns, required_columns) ==
    IF \E i \in 1..Len(required_columns) : ~HasColumn(columns, required_columns[i])
    THEN LET first == CHOOSE i \in 1..Len(required_columns) :
                        /\ ~HasColumn(columns, required_columns[i])
                        /\ \A j \in 1..(i - 1) : HasColumn(columns, required_columns[j])
         IN  ProcessErr("columns", "Column not found in CSV",
                        Some(required_columns[first]), Some(columns))
    ELSE [status |-> "Ok"]

\* the columns the transform steps read
transform_columns(c) ==
    (IF IsSome(c.filter)
     THEN DOMAIN entries(Unwrap(c.filter).include) \cup DOMAIN entries(Unwrap(c.filter).exclude)
     ELSE {})
    \cup (IF IsSome(c.sort) THEN {Unwrap(c.sort)[i].column : i \in 1..Len(Unwrap(c.sort))}
          ELSE {})

\* a column error raised by Polars, at collect or at df.column(name): its message
\* names the column; whether it also prints the columns of the frame is up to the
\* library
polars_column_error(stage, message, names, columns) ==
    {ProcessErr(stage, message, Some(n), a) : n \in names, a \in {None, Some(columns)}}

\* the column behind a renderer's "... column not found"
render_error_column(c, message) ==
    CASE message \in {"X column not found"} -> {Unwrap(c.x)}
      [] message \in {"Y column not found", "Value column not found"} -> {Unwrap(c.y)}
      [] message = "Z column not found" -> {Unwrap(c.z)}
      [] message = "Group column not found" -> {Unwrap(c.group_by)}
      [] message = "Values column not found" -> {Unwrap(c.values)}
      [] message = "Cohort date column not found" -> {Unwrap(c.cohort_date)}
      [] message = "Period number column not found" -> {Unwrap(c.period_number)}
      [] message = "Users column not found" -> {Unwrap(c.users)}
      [] OTHER -> {}

\* render_chart_impl's match on chart_type
chart_render(frame, c) ==
    CASE c.chart_type = "Line" -> line_render(frame, c)
      [] c.chart_type = "Area" -> area_render(frame, c)
      [] c.chart_type = "Bar" -> bar_render(frame, c)
      [] c.chart_type = "BarStacked" -> bar_stacked_render(frame, c)
      [] c.chart_type = "Heatmap" -> heatmap_render(frame, c)
      [] c.chart_type = "Scatter" -> scatter_render(frame, c)
      [] c.chart_type = "Funnel" -> funnel_render(frame, c)
      [] OTHER -> retention_render(frame, c)

\* the drawing steps of one render_chart call, in the order they ran: nothing
\* is drawn when collect() fails; render_chart_impl fills the canvas, splits
\* it and calls the chart's renderer, and renders the legend only after the
\* renderer returned Ok (a renderer's error returns through `?`, its panic
\* ends the process)
render_steps_mut(lf, r) ==
    IF lf.status # "Ok" THEN <<>> ELSE <<"fill", "split", "legend", "chart">>

render_steps(lf, r) ==
    IF lf.status # "Ok" THEN <<>>
    ELSE IF r.status = "Ok" THEN <<"fill", "split", "chart", "legend">>
    ELSE <<"fill", "split", "chart">>

\* render/mod.rs: render_chart on the lazy frame of the transform steps
render_chart(lf, c, columns) ==
    IF lf.status # "Ok"
    THEN LET absent == {n \in transform_columns(c) : ~HasColumn(columns, n)}
         IN  polars_column_error("render", "Failed to collect data for rendering",
                                 IF absent # {} THEN absent ELSE transform_columns(c), columns)
    ELSE LET frame == [columns |-> lf.columns, rows |-> lf.rows]
             rendered == chart_render(frame, c)
         IN  IF rendered.status = "Panic" THEN {ProcessPanic("render")}
             ELSE IF rendered.status = "Ok"
                THEN {r @@ [stage |-> "render"] : r \in render_chart_impl(rendered, frame, c)}
             ELSE IF render_error_column(c, rendered.message) # {}
                THEN polars_column_error("render", rendered.message,
                                         render_error_column(c, rendered.message), lf.columns)
             ELSE {ProcessErr("render", rendered.message, None, None)}

\* the text of a free-text expression, as a sequence of characters
ExpressionText == <<"u", ">", "1">>

\* String: the texts that are used both as an expression and as a filter value
to_string(chars) == CASE chars = ExpressionText -> "u>1"

\* cli.rs: parse_filter_string, the filter of the --filter flag
parse_filter_string(filter_str) ==
    FilterConfig(Some([k \in {"expression"} |-> Single(to_string(filter_str))]), None,
                 Some(filter_str))

\* filters with an expression: two of a spec file and the one of --filter
ExpressionCharts ==
    {[LineChart EXCEPT !.filter = Some(f)]
        : f \in {FilterConfig(None, None, Some(ExpressionText)),
                 FilterConfig(Some([k \in {"channel"} |-> Multiple(<<"A", "B">>)]), None,
                              Some(ExpressionText)),
                 parse_filter_string(ExpressionText)}}

\* valid configs that leave out or add an optional field: a heatmap without x
\* and y, a funnel and a retention chart with an aggregation, a stacked bar
\* chart without group_by
OptionalFieldCharts ==
    {[DefaultConfig EXCEPT !.chart_type = "Heatmap", !.z = Some("users")],
     [DefaultConfig EXCEPT !.chart_type = "Funnel", !.steps = Some(<<"A", "B">>),
                           !.values = Some("users"), !.agg = Some("Sum")],
     [DefaultConfig EXCEPT !.chart_type = "Retention", !.cohort_date = Some("channel"),
                           !.period_number = Some("users"), !.users = Some("users"),
                           !.agg = Some("Sum")],
     [DefaultConfig EXCEPT !.chart_type = "BarStacked", !.x = Some("channel"),
                           !.y = Some("users")]}

\* a filter and a sort on a column the frames do not have
MissingFilter == FilterConfig(Some([k \in {"missing"} |-> Single("A")]), None, None)

MissingSort == <<SortConfig("missing", None)>>

ProcessCharts ==
    {[DefaultConfig EXCEPT !.x = Some(x), !.y = Some(y), !.group_by = g, !.agg = a,
                           !.filter = f, !.sort = s]
        : x \in {"channel", "missing"}, y \in {"users", "missing"},
          g \in {None, Some("device"), Some("missing")}, a \in {None, Some("Sum")},
          f \in {None, Some(MissingFilter)}, s \in {None, Some(MissingSort)}}
    \cup {[DefaultConfig EXCEPT !.chart_type = "Heatmap", !.x = Some("channel"),
                                !.y = Some("device"), !.z = Some(z)]
            : z \in {"users", "missing"}}
    \cup {[DefaultConfig EXCEPT !.chart_type = "Funnel", !.steps = Some(<<"A", "B">>),
                                !.values = Some(v)]
            : v \in {"users", "missing"}}
    \cup {[DefaultConfig EXCEPT !.chart_type = "Retention", !.cohort_date = Some(cd),
                                !.period_number = Some(pn), !.users = Some(u)]
            : cd \in {"channel", "missing"}, pn \in {"users", "missing"},
              u \in {"users", "missing"}}
    \cup {[LineChart EXCEPT !.y = None], [LineChart EXCEPT !.width = Some(MinDim - 1)],
          [DefaultConfig EXCEPT !.chart_type = "Heatmap", !.z = Some("users"),
                                !.agg = Some("Sum")]}
    \cup ExpressionCharts
    \cup OptionalFieldCharts

InitProcess ==
    /\ pc = "start"
    /\ config = DefaultConfig
    /\ df = NoFrame
    /\ result = NoResult
    /\ BatchIdle

\* the chart of a single-chart command, or one chart of a spec
ChooseChart ==
    /\ pc = "start"
    /\ config' \in ProcessCharts
    /\ pc' = "chosen"
    /\ UNCHANGED <<df, result, batchVars>>

\* chart_config.validate()?
ProcessValidate ==
    /\ pc = "chosen"
    /\ \E r \in validate(config) :
        IF r = Ok THEN pc' = "validated" /\ UNCHANGED result
        ELSE pc' = "failed" /\ result' = ProcessErr("validate", r, None, None)
    /\ log' = Append(log, "validate")
    /\ UNCHANGED <<config, df, driverVars>>

\* load_csv(data_path, ..)?: the file cannot be read, or it holds a frame
ProcessLoad ==
    /\ pc = "validated"
    /\ \/ /\ pc' = "failed"
          /\ result' = ProcessErr("load", "Failed to load data", None, None)
          /\ UNCHANGED df
       \/ /\ df' \in Frames
          /\ pc' = "loaded"
          /\ UNCHANGED result
    /\ log' = Append(log, "load")
    /\ UNCHANGED <<config, driverVars>>

\* validate_columns(&lf, &get_required_columns(chart_config))?
ProcessColumns ==
    /\ pc = "loaded"
    /\ LET checked == validate_columns(df.columns, get_required_columns(config))
       IN  IF checked.status = "Ok" THEN pc' = "columns_ok" /\ UNCHANGED result
           ELSE pc' = "failed" /\ result' = checked
    /\ log' = Append(log, "columns")
    /\ UNCHANGED <<config, df, driverVars>>

\* apply_chart_transformations(lf, chart_config)?
ProcessTransform ==
    /\ pc = "columns_ok"
    /\ IF transformations_panic(config)
       THEN pc' = "panicked" /\ result' = ProcessPanic("transform")
       ELSE /\ pc' = "transformed"
            /\ \E lf \in apply_chart_transformations(Lazy(df), config) : result' = lf
    /\ log' = Append(log, "transform")
    /\ UNCHANGED <<config, df, driverVars>>

\* render_chart(processed_lf, chart_config, output_path)
ProcessRender ==
    /\ pc = "transformed"
    /\ \E r \in render_chart(result, config, df.columns) :
        /\ result' = r
        /\ pc' = CASE r.status = "Ok" -> "done"
                   [] r.status = "Panic" -> "panicked"
                   [] OTHER -> "failed"
        /\ log' = log \o render_steps(result, r)
    /\ UNCHANGED <<config, df, driverVars>>

NextProcess ==
    \/ ChooseChart \/ ProcessValidate \/ ProcessLoad
    \/ ProcessColumns \/ ProcessTransform \/ ProcessRender

SpecProcess == InitProcess /\ [][NextProcess]_vars

-----------------------------------------------------------------------------
(* Claims on process_single_chart *)

ProcessEnded == pc \in {"done", "failed", "panicked"}

\* the columns a chart refers to
Referenced(c) ==
    {Unwrap(f) : f \in {c.x, c.y, c.group_by} \ {None}}
    \cup (IF c.chart_type = "Heatmap" /\ IsSome(c.z) THEN {Unwrap(c.z)} ELSE {})
    \cup (IF c.chart_type = "Funnel" /\ IsSome(c.values) THEN {Unwrap(c.values)} ELSE {})
    \cup (IF c.chart_type = "Retention"
          THEN {Unwrap(f) : f \in {c.cohort_date, c.period_number, c.users} \ {None}}
          ELSE {})
    \cup transform_columns(c)

MissingColumns == {n \in Referenced(config) : ~HasColumn(df.columns, n)}

\* the run got past validation and loading
DataLoaded == ProcessEnded /\ result.stage \notin {"validate", "load"}

\* C12: when a referenced column is not in the frame, the chart fails with an
\* error that names a missing column and lists the available columns.
C12_ColumnNotFound ==
    (DataLoaded /\ MissingColumns # {}) =>
        /\ pc = "failed"
        /\ result.column \in {Some(n) : n \in MissingColumns}
        /\ result.available = Some(df.columns)

\* the config asks for no other step than group and aggregate
OnlyGrouping(c) == IsNone(c.filter) /\ IsNone(c.sort) /\ IsNone(c.limit)

GroupValues(column) == {df.rows[i][column] : i \in 1..Len(df.rows)}

\* C13: rows are grouped only when both group_by and agg are set, and then there
\* is exactly one output row per distinct value of the group_by column.
C13_GroupNeedsBoth ==
    (pc = "transformed" /\ OnlyGrouping(config) /\ result.status = "Ok") =>
        IF IsSome(config.group_by) /\ IsSome(config.agg)
        THEN LET column == Unwrap(config.group_by)
             IN  /\ Len(result.rows) = Cardinality(GroupValues(column))
                 /\ {result.rows[i][column] : i \in 1..Len(result.rows)} = GroupValues(column)
        ELSE result.rows = df.rows

HasExpression(c) == IsSome(c.filter) /\ IsSome(Unwrap(c.filter).expression)

\* the conditions of a filter apart from its expression: none for the filter of
\* the --filter flag, which is nothing but an expression
Conditions(filter) ==
    IF filter = parse_filter_string(Unwrap(filter.expression))
    THEN FilterConfig(None, None, None)
    ELSE [filter EXCEPT !.expression = None]

\* C14: a filter with an expression keeps the rows the filter keeps without it,
\* and the chart does not fail for it, in a spec file and with --filter.
C14_ExpressionIgnored ==
    (HasExpression(config) /\ OnlyFilter(config)) =>
        /\ pc = "transformed" =>
                /\ result.status = "Ok"
                /\ result.rows = Kept(df.rows, Conditions(Unwrap(config.filter)))
        /\ pc = "failed" => result.stage = "load"

\* the number a cell stands for: its value, and 0 for a string or a missing cell
NumberOf(value) == IF value.type \in {"Utf8", "Null"} THEN 0 ELSE value.v

\* the rows a renderer reads
RowsRead ==
    Take(df.rows, CASE config.chart_type = "Area" -> AreaRowCap
                    [] config.chart_type = "Bar" -> BarRowCap
                    [] config.chart_type = "Scatter" -> ScatterRowCap
                    [] config.chart_type = "Heatmap" ->
                            IF IsSome(config.z) THEN HeatmapRowCap ELSE BarRowCap
                    [] config.chart_type = "BarStacked" -> StackedRowCap
                    [] config.chart_type = "Retention" -> RetentionRowCap
                    [] OTHER -> Len(df.rows))

\* line, area, bar, scatter, heatmap: one point per row read, with the number of
\* its y cell (z cell for a heatmap with z) as the last coordinate
PointsPlotted ==
    LET column == IF config.chart_type = "Heatmap" /\ IsSome(config.z)
                  THEN Unwrap(config.z) ELSE Unwrap(config.y)
    IN  [i \in 1..Len(result.data_points) |->
            result.data_points[i][Len(result.data_points[i])]]
        = [i \in 1..Len(RowsRead) |-> NumberOf(RowsRead[i][column])]

\* funnel: the steps that have a row carry the number of the cell of their row
StepsPlotted ==
    LET steps == Unwrap(config.steps)
        n == IF Len(steps) < Len(df.rows) THEN Len(steps) ELSE Len(df.rows)
    IN  /\ IsNone(config.step_order) => Len(result.segments) = n
        /\ \A i \in 1..Len(result.segments) :
                \E j \in 1..n :
                    result.segments[i]
                        = <<steps[j], NumberOf(df.rows[j][Unwrap(config.values)])>>

\* stacked bars: the interval of every (category, group) is as high as the number
\* of the y cell of a row of that category and group, 0 when there is no such row
StacksPlotted ==
    LET with_x == HasColumn(df.columns, Unwrap(config.x))
        group_by == Unwrap(config.group_by)
        cells(k, g) ==
            {NumberOf(RowsRead[i][Unwrap(config.y)]) :
                i \in {n \in 1..Len(RowsRead) :
                        /\ RowsRead[n][group_by] = result.groups[g]
                        /\ with_x => RowsRead[n][Unwrap(config.x)] = result.categories[k]}}
    IN  /\ {RowsRead[i][group_by] : i \in 1..Len(RowsRead)}
                = {result.groups[g] : g \in 1..Len(result.groups)}
        /\ \A k \in 1..Len(result.stacked_data) : \A g \in 1..Len(result.groups) :
                LET height == result.stacked_data[k][g][2] - result.stacked_data[k][g][1]
                IN  IF cells(k, g) = {} THEN height = 0 ELSE height \in cells(k, g)

\* retention: every row read gives its cohort a user count at its period, the
\* number of the users cell of a row of that cohort and period
UsersPlotted ==
    \A i \in 1..Len(RowsRead) :
        LET cohort == RowsRead[i][Unwrap(config.cohort_date)]
            period == NumberOf(RowsRead[i][Unwrap(config.period_number)])
        IN  /\ cohort \in DOMAIN result.retention_data
            /\ period \in DOMAIN result.retention_data[cohort]
            /\ result.retention_data[cohort][period]
                \in {NumberOf(RowsRead[j][Unwrap(config.users)]) :
                        j \in {n \in 1..Len(RowsRead) :
                                /\ RowsRead[n][Unwrap(config.cohort_date)] = cohort
                                /\ NumberOf(RowsRead[n][Unwrap(config.period_number)])
                                        = period}}

\* C15: every renderer plots every row it reads, with the number of the cell of
\* the value column, and with 0.0 where that cell is a string or missing.
C15_NonNumericIsZero ==
    (pc = "rendered" /\ result.status = "Ok") =>
        CASE config.chart_type \in {"Line", "Area", "Bar", "Scatter", "Heatmap"} -> PointsPlotted
          [] config.chart_type = "Funnel" -> StepsPlotted
          [] config.chart_type = "BarStacked" -> StacksPlotted
          [] config.chart_type = "Retention" -> UsersPlotted

\* C16: validate rejects a heatmap without z for the missing z; the renderer,
\* given one, raises no error for it and ends as the bar renderer ends on the
\* same frame and config, with the same points drawn.
C16_HeatmapFallsBackToBar ==
    (Rendered("Heatmap") /\ IsNone(config.z)) =>
        /\ validate(config) = {ErrZ}
        /\ result \in render_chart_impl(bar_render(df, config), df, config)
        /\ result.status = "Err" => result.message # ErrZ

\* a heatmap without z was drawn as two bars
C16_Witness ==
    /\ Rendered("Heatmap") /\ IsNone(config.z)
    /\ result.status = "Ok" /\ result.drawn
    /\ Len(result.data_points) = 2

\* the loop over the charts of a spec was entered and the run has ended
BatchRunEnded ==
    /\ charts # <<>>
    /\ pc \in {"aborted", "panicked", "exit_failure", "exit_success"}

\* C17: at the end of a batch run the charts counted successful and failed add
\* up to the charts of the spec, and the run exits with a failure exactly when a
\* chart was counted failed; a single-chart command succeeds exactly when none
\* of its stages failed.
C17_ExitReflectsFailures ==
    /\ BatchRunEnded =>
            /\ successful_charts + failed_charts = Len(charts)
            /\ pc # "exit_success" <=> failed_charts > 0
    /\ (charts = <<>> /\ ProcessEnded) => (pc = "done" <=> result.status = "Ok")

\* the entries of the include and exclude maps of a filter, as (column, values)
EntriesOf(filter) ==
    UNION {{<<k, Unwrap(m)[k]>> : k \in DOMAIN Unwrap(m)}
            : m \in {filter.include, filter.exclude} \ {None}}

\* the expression consists of nothing but spaces
Blank(expression) == \A i \in 1..Len(expression) : expression[i] = " "

\* a filter without a condition, with an empty column name, an empty value, an
\* empty list of values, or a blank expression
Defective(filter) ==
    \/ EntriesOf(filter) = {} /\ IsNone(filter.expression)
    \/ \E e \in EntriesOf(filter) :
        \/ e[1] = ""
        \/ e[2].values = <<>>
        \/ \E i \in 1..Len(e[2].values) : e[2].values[i] = ""
    \/ IsSome(filter.expression) /\ Blank(Unwrap(filter.expression))

\* C18: a config whose filter has no condition, an empty column name, an empty
\* value or list of values, or a blank expression is rejected, and a config is
\* rejected for its filter in no other case.
C18_FilterValidation ==
    (pc = "validated" /\ IsSome(config.filter)) =>
        IF Defective(Unwrap(config.filter)) THEN result # Ok
        ELSE result \notin FilterErrors

\* a filter with a good include entry is rejected for an expression of spaces
C18_Witness ==
    /\ pc = "validated"
    /\ config.filter
        = Some(FilterConfig(Some([k \in {"channel"} |-> Single("a")]), None, Some(<<" ", " ">>)))
    /\ result = ErrExpressionEmpty

-----------------------------------------------------------------------------
(* spec.rs: ChartSpec::from_yaml, ChartSpec::from_json, ChartSpec::validate. *)
(* A document is [format, well_formed, charts]: serde turns a well-formed    *)
(* document of the right format into the list of its charts, and fails on   *)
(* any other.                                                                *)

SpecOk(cs) == [status |-> "Ok", charts |-> cs]

SpecErr(message, chart, source) ==
    [status |-> "Err", message |-> message, chart |-> chart, source |-> source]

\* serde_yaml::from_str / serde_json::from_str
from_str(format, content) ==
    IF content.format = format /\ content.well_formed THEN Some(content.charts) ELSE None

\* a validation that numbers the charts from 0
chart_spec_validate_mut(cs) ==
    IF cs = <<>>
    THEN {SpecErr("Chart specification must contain at least one chart", None, None)}
    ELSE IF \A i \in 1..Len(cs) : validate(cs[i]) = {Ok} THEN {SpecOk(cs)}
    ELSE LET first == CHOOSE i \in 0..(Len(cs) - 1) :
                        /\ validate(cs[i + 1]) # {Ok}
                        /\ \A j \in 0..(i - 1) : validate(cs[j + 1]) = {Ok}
         IN  {SpecErr("Chart validation failed", Some(first), Some(e))
                : e \in validate(cs[first + 1]) \ {Ok}}

\* ChartSpec::validate: the loop stops at the first chart whose validate fails,
\* and with_context puts "Chart {index + 1} validation failed" around its error
chart_spec_validate(cs) ==
    IF cs = <<>>
    THEN {SpecErr("Chart specification must contain at least one chart", None, None)}
    ELSE IF \A i \in 1..Len(cs) : validate(cs[i]) = {Ok} THEN {SpecOk(cs)}
    ELSE LET first == CHOOSE i \in 0..(Len(cs) - 1) :
                        /\ validate(cs[i + 1]) # {Ok}
                        /\ \A j \in 0..(i - 1) : validate(cs[j + 1]) = {Ok}
         IN  {SpecErr("Chart validation failed", Some(first + 1), Some(e))
                : e \in validate(cs[first + 1]) \ {Ok}}

from_yaml(content) ==
    LET spec == from_str("yaml", content)
    IN  IF IsNone(spec) THEN {SpecErr("parse error", None, None)}
        ELSE chart_spec_validate(Unwrap(spec))

from_json(content) ==
    LET spec == from_str("json", content)
    IN  IF IsNone(spec) THEN {SpecErr("parse error", None, None)}
        ELSE chart_spec_validate(Unwrap(spec))

\* two valid charts and charts that fail validation for a missing field, a
\* width, and a filter with two bad entries
SpecCharts ==
    {Bound("Line", {"x", "y"}),
     Bound("Heatmap", {"z"}),
     Bound("Line", {"y"}),
     Bound("Heatmap", {"x", "y"}),
     [Bound("Bar", {"x", "y"}) EXCEPT !.width = Some(MinDim - 1)],
     [Bound("Bar", {"x", "y"}) EXCEPT
        !.filter = Some(FilterConfig(Some([k \in {"channel"} |-> Multiple(<<>>)]),
                                     Some([k \in {""} |-> Single("a")]), None))]}

Documents ==
    [format : {"yaml", "json"}, well_formed : BOOLEAN,
     charts : SeqsUpTo(SpecCharts, MaxCharts)]

InitLoad ==
    /\ pc = "start"
    /\ config = DefaultConfig
    /\ df = NoFrame
    /\ result = NoResult
    /\ BatchIdle

\* a .yaml or .yml file is read; df holds the document
LoadYaml ==
    /\ pc = "start"
    /\ \E content \in Documents :
        /\ df' = content
        /\ result' \in from_yaml(content)
    /\ pc' = "parsed"
    /\ UNCHANGED <<config, batchVars>>

\* a .json file is read
LoadJson ==
    /\ pc = "start"
    /\ \E content \in Documents :
        /\ df' = content
        /\ result' \in from_json(content)
    /\ pc' = "parsed"
    /\ UNCHANGED <<config, batchVars>>

NextLoad == LoadYaml \/ LoadJson

SpecLoad == InitLoad /\ [][NextLoad]_vars

\* the numbers, from 1, of the charts of the document that fail validation
FailingCharts == {i \in 1..Len(df.charts) : Ok \notin validate(df.charts[i])}

\* C19: a spec is returned only when it has a chart and every chart is valid; an
\* empty list is rejected for having no chart, and otherwise the error is the
\* one of the first failing chart, with its number counted from 1.
C19_SpecValidation ==
    (pc = "parsed" /\ (result.status = "Err" => result.message # "parse error")) =>
        IF df.charts = <<>>
        THEN /\ result.status = "Err"
             /\ result.message = "Chart specification must contain at least one chart"
        ELSE IF FailingCharts = {}
        THEN result = SpecOk(df.charts)
        ELSE /\ result.status = "Err"
             /\ result.message = "Chart validation failed"
             /\ IsSome(result.chart)
             /\ Unwrap(result.chart) \in FailingCharts
             /\ \A i \in FailingCharts : Unwrap(result.chart) <= i
             /\ Unwrap(result.source) \in validate(df.charts[Unwrap(result.chart)])

\* of three charts the second and the third are invalid: the error is the one
\* of chart 2
C19_Witness ==
    /\ pc = "parsed"
    /\ Len(df.charts) = 3
    /\ FailingCharts = {2, 3}
    /\ df.charts[2] # df.charts[3]
    /\ result.status = "Err"
    /\ result.chart = Some(2)

-----------------------------------------------------------------------------
(* Claims on the heatmap intensities *)

\* the z values of the cells of a heatmap that was drawn
DrawnZ == {result.data_points[i][3] : i \in 1..Len(result.data_points)}

SmallestZ == CHOOSE z \in DrawnZ : \A other \in DrawnZ : z <= other

LargestZ == CHOOSE z \in DrawnZ : \A other \in DrawnZ : z >= other

\* the fraction f equals num / den, for a positive den
FractionIs(f, num, den) == f.den > 0 /\ f.num * den = num * f.den

\* C20: the intensity of a cell is (z - z_min) / (z_max - z_min) for the smallest
\* and the largest z drawn, and 0.5 when they are equal; it lies in [0, 1], is 1
\* for the largest z and 0 for the smallest, negative values included.
C20_IntensityScale ==
    (Rendered("Heatmap") /\ IsSome(config.z) /\ result.status = "Ok" /\ result.drawn) =>
        \A i \in 1..Len(result.data_points) :
            LET z == result.data_points[i][3]
                shade == result.intensities[i]
            IN  /\ IF LargestZ = SmallestZ THEN FractionIs(shade, 1, 2)
                   ELSE FractionIs(shade, z - SmallestZ, LargestZ - SmallestZ)
                /\ 0 <= shade.num /\ shade.num <= shade.den
                /\ (LargestZ # SmallestZ /\ z = LargestZ) => shade.num = shade.den
                /\ (LargestZ # SmallestZ /\ z = SmallestZ) => shade.num = 0

-----------------------------------------------------------------------------
(* Claims on the stages of process_single_chart *)

\* C21: a config that validate accepts is processed to the end or to a returned
\* error, for every chart type and combination of optional fields; the run never
\* panics.
C21_NoPanic ==
    (Ok \in validate(config) /\ ProcessEnded) => pc # "panicked"

-----------------------------------------------------------------------------
(* Claims on the funnel segments *)

\* the number, from 1, of a declared step
DeclaredAt(step) == CHOOSE j \in 1..Len(Unwrap(config.steps)) : Unwrap(config.steps)[j] = step

-----------------------------------------------------------------------------
(* Claims on the stacked intervals *)

\* the rows read of category k (of every category when the frame has no x
\* column) and group g
CellsOf(k, g) ==
    {NumberOf(RowsRead[i].users) :
        i \in {n \in 1..Len(RowsRead) :
                /\ RowsRead[n].device = result.groups[g]
                /\ HasColumn(df.columns, "channel")
                        => RowsRead[n].channel = result.categories[k]}}

\* one interval per group, the groups in lexicographic order; the intervals of
\* a category start at 0 and follow one another; a group without a row in the
\* category has an interval of height 0
IntervalsStacked ==
    /\ \A g, h \in 1..Len(result.groups) : g < h => ord(result.groups[g]) < ord(result.groups[h])
    /\ {result.groups[g] : g \in 1..Len(result.groups)}
            = {RowsRead[i].device : i \in 1..Len(RowsRead)}
    /\ \A k \in 1..Len(result.stacked_data) :
        LET stacks == result.stacked_data[k]
        IN  /\ Len(stacks) = Len(result.groups)
            /\ stacks[1][1] = 0
            /\ \A g \in 2..Len(stacks) : stacks[g][1] = stacks[g - 1][2]
            /\ \A g \in 1..Len(stacks) :
                    IF CellsOf(k, g) = {} THEN stacks[g][2] = stacks[g][1]
                    ELSE stacks[g][2] - stacks[g][1] \in CellsOf(k, g)

\* the largest final end over the categories drawn
LargestEnd ==
    LET ends == {last_end(result.stacked_data[k]) : k \in 1..Len(result.stacked_data)}
    IN  CHOOSE e \in ends : \A other \in ends : e >= other

\* C23: the stacked intervals are as described, and the axis ends at the
\* largest final end of a category.
C23_StackedIntervals ==
    (Rendered("BarStacked") /\ result.status = "Ok" /\ result.drawn) =>
        /\ IntervalsStacked
        /\ result.y_range[2] = LargestEnd * 10

\* C23, amended: the stacked intervals are as described, and the axis ends at
\* 1.1 times the largest final end of a category.
C23_StackedIntervalsPadded ==
    (Rendered("BarStacked") /\ result.status = "Ok" /\ result.drawn) =>
        /\ IntervalsStacked
        /\ result.y_range[2] = LargestEnd * 11

\* a category was drawn whose rows name group B before group A: the interval
\* of A comes first and the one of B starts where it ends
C23_Witness ==
    /\ Rendered("BarStacked") /\ result.status = "Ok" /\ result.drawn
    /\ HasColumn(df.columns, "channel") /\ Len(df.rows) = 2
    /\ df.rows[1].channel = "A" /\ df.rows[1].device = "B"
    /\ df.rows[2].channel = "A" /\ df.rows[2].device = "A"
    /\ result.groups = <<"A", "B">>
    /\ result.stacked_data[1] = <<<<0, 2>>, <<2, 3>>>>

-----------------------------------------------------------------------------
(* The layout: a surface is split, and a legend item is drawn in the legend  *)
(* area.                                                                     *)

MaxItemLen == 20

Alphabet ==
    <<"a", "b", "c", "d", "e", "f", "g", "h", "i", "j", "k", "l", "m",
      "n", "o", "p", "q", "r", "s", "t", "u", "v", "w", "x", "y", "z">>

\* the sides of a surface: the limits of validate, and sides around those that
\* leave room for 10 characters of legend text
SurfaceSides == {MinDim, MinDim + 1, 140, 148, 199, 560, 599, DefaultWidth, MaxDim - 1, MaxDim}

InitLayout ==
    /\ pc = "start"
    /\ config = DefaultConfig
    /\ df = NoFrame
    /\ result = NoResult
    /\ BatchIdle

\* render_chart_impl: split_drawing_area(&root, legend_position); df holds the
\* surface and the legend position
SplitSurface ==
    /\ pc = "start"
    /\ \E width \in SurfaceSides, height \in SurfaceSides, position \in LegendPosition :
        /\ df' = [width |-> width, height |-> height, legend_position |-> position]
        /\ result' = split_drawing_area(Area(0, 0, width, height), position)
    /\ pc' = "split"
    /\ UNCHANGED <<config, batchVars>>

\* render_external_legend: one item is drawn in the legend area
DrawLegendItem ==
    /\ pc = "split"
    /\ \E n \in 0..MaxItemLen :
        LET item == SubSeq(Alphabet, 1, n)
            legend_area == result[2]
        IN  result' = [chart_area |-> result[1], legend_area |-> legend_area,
                       item |-> item,
                       display_text |-> display_text(item, legend_area.x1 - legend_area.x0)]
    /\ pc' = "legend"
    /\ UNCHANGED <<config, df, batchVars>>

NextLayout == SplitSurface \/ DrawLegendItem

SpecLayout == InitLayout /\ [][NextLayout]_vars

\* the characters the legend area has room for
MaxChars ==
    LET legend_width == result.legend_area.x1 - result.legend_area.x0
    IN  IF legend_width > 60 THEN (legend_width - 60) \div 8 ELSE 0

\* C24: an item longer than max_chars is drawn as its first max_chars - 3
\* characters and "..." whenever max_chars is at least 10, and then has at most
\* max_chars characters; an item of at most max_chars characters is drawn as it is.
C24_LegendTruncation ==
    pc = "legend" =>
        /\ (Len(result.item) > MaxChars /\ MaxChars >= 10) =>
                /\ result.display_text
                        = SubSeq(result.item, 1, MaxChars - 3) \o <<".", ".", ".">>
                /\ Len(result.display_text) <= MaxChars
        /\ Len(result.item) <= MaxChars => result.display_text = result.item

\* the pixels of an area
Pixels(a) == (a.x1 - a.x0) * (a.y1 - a.y0)

\* C26: the chart area and the legend area share no pixel and cover the
\* surface; the legend is floor(0.25 x width) wide on the right or left edge, or
\* floor(0.15 x height) high on the top or bottom edge, and the chart area, the
\* rest, comes first.
C26_SplitCoversSurface ==
    pc = "split" =>
        LET width == df.width
            height == df.height
            legend_width == (25 * width) \div 100
            legend_height == (15 * height) \div 100
            chart == result[1]
            legend == result[2]
        IN  /\ CASE df.legend_position = "Right" ->
                        /\ legend = Area(width - legend_width, 0, width, height)
                        /\ chart = Area(0, 0, width - legend_width, height)
                 [] df.legend_position = "Left" ->
                        /\ legend = Area(0, 0, legend_width, height)
                        /\ chart = Area(legend_width, 0, width, height)
                 [] df.legend_position = "Top" ->
                        /\ legend = Area(0, 0, width, legend_height)
                        /\ chart = Area(0, legend_height, width, height)
                 [] df.legend_position = "Bottom" ->
                        /\ legend = Area(0, height - legend_height, width, height)
                        /\ chart = Area(0, 0, width, height - legend_height)
            /\ Pixels(chart) + Pixels(legend) = width * height
            /\ \/ chart.x1 <= legend.x0 \/ legend.x1 <= chart.x0
               \/ chart.y1 <= legend.y0 \/ legend.y1 <= chart.y0

\* a surface of 101 x 10000 pixels was split for a legend on the left, 25
\* pixels wide
C26_Witness ==
    /\ pc = "split"
    /\ df = [width |-> MinDim + 1, height |-> MaxDim, legend_position |-> "Left"]
    /\ result[2] = Area(0, 0, 25, MaxDim)
    /\ result[1] = Area(25, 0, MinDim + 1, MaxDim)

-----------------------------------------------------------------------------
(* Claims on the legend items *)

\* C25: the legend of a validated config is the y column name for line, area
\* and bar, the z column name for heatmap, "<y> vs <x>" for scatter, the fixed
\* label for retention, and for bar-stacked the groups in the order of the
\* colours the renderer draws them with.
C25_LegendItems ==
    (pc = "rendered" /\ result.status = "Ok" /\ validate(config) = {Ok}) =>
        CASE config.chart_type \in {"Line", "Area", "Bar"} ->
                result.legend = <<Unwrap(config.y)>>
          [] config.chart_type = "Heatmap" -> result.legend = <<Unwrap(config.z)>>
          [] config.chart_type = "Scatter" ->
                result.legend = <<<<Unwrap(config.y), " vs ", Unwrap(config.x)>>>>
          [] config.chart_type = "Retention" -> result.legend = <<"Retention %">>
          [] config.chart_type = "BarStacked" -> result.legend = result.groups
          [] OTHER -> TRUE

-----------------------------------------------------------------------------
(* Claims on the order of the steps of process_single_chart *)

\* the steps of one chart, in the order of the code
Steps == <<"validate", "load", "columns", "transform", "fill", "split", "chart", "legend">>

IsPrefix(s, t) == Len(s) <= Len(t) /\ \A i \in 1..Len(s) : s[i] = t[i]

StepRan(step) == \E i \in 1..Len(log) : log[i] = step

\* C27: the steps of a single chart run in the order validate, load, check
\* columns, transform, fill, split, render chart, render legend, each only
\* after every earlier one succeeded: a config that fails validation loads no
\* data and touches no output, a missing required column keeps the renderer
\* from being called, and the legend is rendered only after the chart
\* renderer returned success
C27_StepOrder ==
    /\ IsPrefix(log, Steps)
    /\ (pc = "done") = (log = Steps)
    /\ (pc \in {"failed", "panicked"}) => Len(log) < Len(Steps)
    /\ (StepRan("validate") /\ Ok \notin validate(config)) =>
            (log = <<"validate">> /\ df = NoFrame /\ written = {} /\ pc = "failed")
    /\ (StepRan("columns")
            /\ validate_columns(df.columns, get_required_columns(config)).status # "Ok") =>
            (log = <<"validate", "load", "columns">> /\ pc = "failed")
    /\ StepRan("legend") => (pc = "done" /\ result.status = "Ok")
    /\ StepRan("fill") => (StepRan("transform") /\ result.stage = "render")

\* a chart that went through all eight steps
C27_Witness == pc = "done" /\ log = Steps /\ result.status = "Ok"

-----------------------------------------------------------------------------
(* data/derive.rs: derive expressions.  An expression is a sequence of      *)
(* tokens: a function name first, then parentheses, commas, blanks and       *)
(* column names.                                                             *)

DeriveOk(function, columns) == [status |-> "Ok", function |-> function, columns |-> columns]

DeriveErr(message) == [status |-> "Err", message |-> message]

\* a panic of .unwrap() on None
DerivePanic == [status |-> "Panic"]

\* s.starts_with("<name>(")
starts_with(s, name) == Len(s) >= 2 /\ s[1] = name /\ s[2] = "("

\* str::find and str::rfind of one character: the first and the last position
find(s, ch) ==
    LET at == {i \in 1..Len(s) : s[i] = ch}
    IN  IF at = {} THEN None ELSE Some(CHOOSE i \in at : \A j \in at : i <= j)

rfind(s, ch) ==
    LET at == {i \in 1..Len(s) : s[i] = ch}
    IN  IF at = {} THEN None ELSE Some(CHOOSE i \in at : \A j \in at : i >= j)

\* the text between the first "(" and the last ")"; the caller has seen a "("
extract_column_name(expr) ==
    IF IsNone(rfind(expr, ")")) THEN DerivePanic
    ELSE LET start == Unwrap(find(expr, "(")) + 1
             end == Unwrap(rfind(expr, ")"))
         IN  [status |-> "Ok", name |-> SubSeq(expr, start, end - 1)]

\* str::split(','): the pieces between the commas, one more than the commas
RECURSIVE split(_, _)
split(s, ch) ==
    IF IsNone(find(s, ch)) THEN <<s>>
    ELSE LET at == Unwrap(find(s, ch))
         IN  <<SubSeq(s, 1, at - 1)>> \o split(SubSeq(s, at + 1, Len(s)), ch)

ErrTwoColumns == "Expected two column names, got"

ErrUnsupported == "Unsupported derive expression"

extract_two_column_names(expr) ==
    IF IsNone(rfind(expr, ")")) THEN DerivePanic
    ELSE LET start == Unwrap(find(expr, "(")) + 1
             end == Unwrap(rfind(expr, ")"))
             inner == SubSeq(expr, start, end - 1)
             pieces == split(inner, ",")
             parts == [i \in 1..Len(pieces) |-> TrimEnd(TrimStart(pieces[i]))]
         IN  IF Len(parts) # 2 THEN DeriveErr(ErrTwoColumns)
             ELSE [status |-> "Ok", names |-> <<parts[1], parts[2]>>]

\* the functions of one column
ColumnFunctions == {"to_week", "to_month", "to_hour", "weekday"}

parse_derive_expression(expr) ==
    IF \E f \in ColumnFunctions : starts_with(expr, f)
    THEN LET col_name == extract_column_name(expr)
         IN  IF col_name.status = "Ok" THEN DeriveOk(expr[1], <<col_name.name>>)
             ELSE col_name
    ELSE IF starts_with(expr, "source_medium")
    THEN LET cols == extract_two_column_names(expr)
         IN  IF cols.status = "Ok" THEN DeriveOk(expr[1], cols.names)
             ELSE cols
    ELSE DeriveErr(ErrUnsupported)

\* apply_derived_columns: the loop over the HashMap visits the entries in an
\* arbitrary order and returns at the first expression that does not parse
RECURSIVE derive_in_order(_, _, _, _)
derive_in_order(derivations, order, i, added) ==
    IF i > Len(order) THEN [status |-> "Ok", added |-> added]
    ELSE LET derived_expr == parse_derive_expression(derivations[order[i]])
         IN  IF derived_expr.status # "Ok" THEN derived_expr
             ELSE derive_in_order(derivations, order, i + 1, added \cup {order[i]})

Orders(S) == {q \in SeqsUpTo(S, Cardinality(S)) :
                Len(q) = Cardinality(S) /\ \A k \in S : \E i \in 1..Len(q) : q[i] = k}

apply_derived_columns(derivations) ==
    {derive_in_order(derivations, order, 1, {}) : order \in Orders(DOMAIN derivations)}

\* the longest enumerated argument text, in tokens
MaxExprLen == 5

FunctionNames == ColumnFunctions \cup {"source_medium", "sum"}

ArgumentTokens == {"(", ")", ",", " ", "a"}

\* every short expression, and longer ones with blanks and a third argument
DeriveExpressions ==
    {<<f>> \o text : f \in FunctionNames, text \in SeqsUpTo(ArgumentTokens, MaxExprLen)}
    \cup {<<f>> \o text : f \in FunctionNames,
                          text \in {<<"(", "a", ",", " ", "b", ")">>,
                                    <<"(", "a", ",", "b", ",", "c", ")">>,
                                    <<"(", "a", ",", "b", ",", "c">>}}

\* the derive maps of a spec: one or two new columns
DeriveMaps ==
    LET exprs == {<<"to_week", "(", "a", ")">>, <<"to_week", "(", "a">>,
                  <<"source_medium", "(", "a", ",", "b", ")">>,
                  <<"source_medium", "(", "a", ")">>, <<"sum", "(", "a", ")">>,
                  <<"weekday", "(", "a", ")", "b">>}
    IN  UNION {[ks -> exprs] : ks \in {{"week"}, {"week", "label"}}}

InitDerive ==
    /\ pc = "start"
    /\ config = DefaultConfig
    /\ df = NoFrame
    /\ result = NoResult
    /\ BatchIdle

\* parse_derive_expression(expr_str)
ParseDerive ==
    /\ pc = "start"
    /\ \E expr \in DeriveExpressions :
        result' = [expr |-> expr, parsed |-> parse_derive_expression(expr)]
    /\ pc' = "parsed"
    /\ UNCHANGED <<config, df, batchVars>>

\* apply_derived_columns(lf, derivations)
ApplyDerived ==
    /\ pc = "start"
    /\ \E derivations \in DeriveMaps :
        \E outcome \in apply_derived_columns(derivations) :
            result' = [derivations |-> derivations, outcome |-> outcome]
    /\ pc' = "derived"
    /\ UNCHANGED <<config, df, batchVars>>

NextDerive == ParseDerive \/ ApplyDerived

SpecDerive == InitDerive /\ [][NextDerive]_vars

-----------------------------------------------------------------------------
(* Claims on the derive expressions *)

\* name(col): the name, "(", a text without parentheses, ")"
IsColumnForm(expr, name) ==
    /\ Len(expr) >= 3
    /\ expr[1] = name /\ expr[2] = "(" /\ expr[Len(expr)] = ")"
    /\ \A i \in 3..(Len(expr) - 1) : expr[i] \notin {"(", ")"}

Commas(expr) == Cardinality({i \in 1..Len(expr) : expr[i] = ","})

\* one of the five forms
IsSupportedForm(expr) ==
    \/ \E f \in ColumnFunctions : IsColumnForm(expr, f)
    \/ IsColumnForm(expr, "source_medium") /\ Commas(expr) = 1

\* C28: parse_derive_expression accepts only to_week(col), to_month(col),
\* to_hour(col), weekday(col) and source_medium(a,b) and rejects every other
\* expression with a returned error; one rejected expression makes
\* apply_derived_columns fail as a whole
C28_DeriveForms ==
    /\ pc = "parsed" =>
            /\ result.parsed.status \in {"Ok", "Err"}
            /\ (result.parsed.status = "Ok") = IsSupportedForm(result.expr)
    /\ pc = "derived" =>
            ((\E k \in DOMAIN result.derivations :
                    ~IsSupportedForm(result.derivations[k]))
                => result.outcome.status = "Err")

-----------------------------------------------------------------------------
(* render/styling.rs: the palettes of the two themes, and the style each    *)
(* drawing step of a render uses.                                            *)

RGBColor(r, g, b) == <<r, g, b>>

WHITE == RGBColor(255, 255, 255)

Theme == {"Light", "Dark"}

\* ColorPalette::light()
light ==
    [primary |-> <<RGBColor(31, 119, 180), RGBColor(255, 127, 14), RGBColor(44, 160, 44),
                   RGBColor(214, 39, 40), RGBColor(148, 103, 189), RGBColor(140, 86, 75),
                   RGBColor(227, 119, 194), RGBColor(127, 127, 127), RGBColor(188, 189, 34),
                   RGBColor(23, 190, 207)>>,
     text |-> [title |-> RGBColor(33, 37, 41), axis_labels |-> RGBColor(80, 80, 80),
               data_labels |-> RGBColor(100, 100, 100), grid |-> RGBColor(222, 226, 230)],
     background |-> [chart |-> WHITE, canvas |-> WHITE]]

\* ColorPalette::dark()
dark ==
    [primary |-> <<RGBColor(114, 158, 206), RGBColor(255, 158, 74), RGBColor(103, 191, 92),
                   RGBColor(237, 102, 93), RGBColor(173, 139, 201), RGBColor(168, 120, 110),
                   RGBColor(237, 151, 202), RGBColor(162, 162, 162), RGBColor(205, 204, 93),
                   RGBColor(109, 204, 218)>>,
     text |-> [title |-> RGBColor(248, 249, 250), axis_labels |-> RGBColor(200, 200, 200),
               data_labels |-> RGBColor(180, 180, 180), grid |-> RGBColor(73, 80, 87)],
     background |-> [chart |-> RGBColor(33, 37, 41), canvas |-> RGBColor(33, 37, 41)]]

\* ChartStyle::new(theme)
ChartStyle(theme) == [theme |-> theme, colors |-> IF theme = "Light" THEN light ELSE dark]

\* get_chart_style(): ChartStyle::default(), the Light style
get_chart_style == ChartStyle("Light")

get_chart_style_with_theme(theme) == ChartStyle(theme)

\* ChartStyle::get_primary_color: the index cycles through the palette
get_primary_color(style, i) == style.colors.primary[(i % Len(style.colors.primary)) + 1]

title_font(style) == style.colors.text.title

axis_label_font(style) == style.colors.text.data_labels

\* config.theme.as_ref().unwrap_or(&Theme::Light)
theme_of(theme) == IF IsSome(theme) THEN Unwrap(theme) ELSE "Light"

\* the most series and legend items drawn in one render
MaxSeries == 11

InitStyle ==
    /\ pc = "start"
    /\ config = DefaultConfig
    /\ df = NoFrame
    /\ result = NoResult
    /\ BatchIdle

\* the chart's config.theme; df holds it
ChooseTheme ==
    /\ pc = "start"
    /\ \E theme \in {None} \cup {Some(t) : t \in Theme} : df' = [theme |-> theme]
    /\ pc' = "themed"
    /\ UNCHANGED <<config, result, batchVars>>

\* render_chart_impl: root.fill(&style.colors.background.canvas)
FillCanvas ==
    /\ pc = "themed"
    /\ LET style == get_chart_style_with_theme(theme_of(df.theme))
       IN  result' = [canvas |-> style.colors.background.canvas]
    /\ pc' = "filled"
    /\ UNCHANGED <<config, df, batchVars>>

\* the chart's renderer: its style is get_chart_style(); it draws the caption,
\* the axis labels and one colour per series
RenderSeries ==
    /\ pc = "filled"
    /\ \E n \in 1..MaxSeries :
        LET style == get_chart_style
        IN  result' = [canvas |-> result.canvas,
                       title |-> title_font(style),
                       labels |-> axis_label_font(style),
                       series |-> [i \in 1..n |-> get_primary_color(style, i - 1)]]
    /\ pc' = "charted"
    /\ UNCHANGED <<config, df, batchVars>>

\* render_external_legend: the background comes from the themed style, the
\* swatches and the text from get_chart_style()
RenderLegend ==
    /\ pc = "charted"
    /\ \E n \in 0..MaxSeries :
        LET themed == get_chart_style_with_theme(theme_of(df.theme))
            style == get_chart_style
        IN  result' = [canvas |-> result.canvas, title |-> result.title,
                       labels |-> result.labels, series |-> result.series,
                       legend_background |-> themed.colors.background.chart,
                       swatches |-> [i \in 1..n |-> get_primary_color(style, i - 1)],
                       legend_text |-> axis_label_font(style)]
    /\ pc' = "styled"
    /\ UNCHANGED <<config, df, batchVars>>

\* style.get_primary_color(index) on the style of a theme
GetPrimaryColor ==
    /\ pc = "start"
    /\ \E theme \in Theme, i \in 0..(3 * MaxSeries) :
        result' = [theme |-> theme, index |-> i,
                   color |-> get_primary_color(ChartStyle(theme), i)]
    /\ pc' = "color"
    /\ UNCHANGED <<config, df, batchVars>>

NextStyle == ChooseTheme \/ FillCanvas \/ RenderSeries \/ RenderLegend \/ GetPrimaryColor

SpecStyle == InitStyle /\ [][NextStyle]_vars

-----------------------------------------------------------------------------
(* Claims on the style of a render *)

\* the palette of a theme
PaletteOf(theme) == IF theme = "Light" THEN light ELSE dark

\* C29: every colour of one render comes from the palette of config.theme
\* (Light when absent): the canvas background, the series colours of the
\* chart renderer, the legend swatches and the title and label text colours;
\* and get_primary_color(i) is palette entry i mod 10
C29_ThemeStyle ==
    /\ pc = "styled" =>
        LET palette == PaletteOf(IF df.theme = None THEN "Light" ELSE df.theme[1])
        IN  /\ result.canvas = palette.background.canvas
            /\ \A i \in 1..Len(result.series) :
                    result.series[i] = palette.primary[((i - 1) % 10) + 1]
            /\ \A i \in 1..Len(result.swatches) :
                    result.swatches[i] = palette.primary[((i - 1) % 10) + 1]
            /\ result.title = palette.text.title
            /\ result.labels = palette.text.data_labels
            /\ result.legend_text = palette.text.data_labels
    /\ pc = "color" =>
        result.color = PaletteOf(result.theme).primary[(result.index % 10) + 1]

-----------------------------------------------------------------------------
(* Claims on the output files of a batch run *)

\* C30: in a batch run two different charts of the spec never get the same
\* output path, so no file of a successful chart is overwritten by a later
\* chart and a batch whose N charts all succeed leaves N distinct files
C30_DistinctOutputs ==
    pc \in {"loop", "exit_success", "exit_failure"} =>
        /\ \A i, j \in 1..Len(charts) :
                i # j => output_path(charts[i], i) # output_path(charts[j], j)
        /\ Cardinality(written) = successful_charts

====
